---- MODULE Spec2Model ----
(***************************************************************************)
(* Channel coordination engine of cleo-dev: the ChannelManager of          *)
(* adapters/channels/manager.py (ingestion queue, sequential processor,    *)
(* result polling, cleanup and chunking, health supervisor), the           *)
(* SessionStore of adapters/channels/session.py and the Telegram adapter's *)
(* reconnect loop of adapters/channels/telegram.py.                        *)
(*                                                                         *)
(* A text is a sequence of lexemes.  A lexeme is one character ("a", " ",  *)
(* "\n") or a run of characters taken whole: the tokens the cleanup        *)
(* patterns look for ("---", "<think>", ...) and BLOCK, a run of           *)
(* HISTORY_LIMIT letters.  Width is a lexeme's length in characters; the   *)
(* texts drawn as inputs keep every cut of a slice or a chunk on a lexeme  *)
(* boundary.                                                               *)
(***************************************************************************)
EXTENDS Integers, Sequences, FiniteSets, TLC

\* ------------------------------------------------------------------------
\* Program constants

TASK_TIMEOUT == 600

POLL_INTERVAL == 2

STATUS_INTERVAL == 30

HISTORY_LIMIT == 2000

CODE_EXPIRY_SECONDS == 300

MAX_PAIRING_ATTEMPTS == 5

\* "lockout_remaining = 600 - (time.time() - attempt_info["last"])"
LOCKOUT_SECONDS == 600

\* cleanup(max_idle = 3600.0)
MAX_IDLE == 3600

\* "Called automatically every 1000 allow() calls."
CLEANUP_EVERY == 1000

DEFAULT_LIMIT == 4096

DISCORD_LIMIT == 2000

\* telegram.py: the reconnect backoff, in seconds
_RECONNECT_BASE_DELAY == 5

_RECONNECT_MAX_DELAY == 300

PLATFORM_LIMITS(channel) ==
  CASE channel = "telegram" -> 4096
    [] channel = "discord"  -> DISCORD_LIMIT
    [] channel = "feishu"   -> 10000
    [] channel = "slack"    -> 4000
    [] OTHER                -> DEFAULT_LIMIT

\* "(无结果)"
NO_RESULT == <<"(no-result)">>

\* ------------------------------------------------------------------------
\* Lexemes

NL == "\n"

SP == " "

TAB == "\t"

SEP == "---"

MARK_OPEN == "<!--agent:"

MARK_CLOSE == "-->"

THINK_OPEN == "<think>"

THINK_CLOSE == "</think>"

JSON_OPEN == "<fence>json"

FENCE == "<fence>"

LBRACKET == "["

RBRACKET == "]"

LBRACE == "{"

RBRACE == "}"

KEY == "<task-key>"

IsSpace(c) == c \in {SP, NL, TAB}

Min(S) == CHOOSE x \in S : \A y \in S : x <= y

Max(S) == CHOOSE x \in S : \A y \in S : x >= y

\* lexemes i..j of the text (1-based, inclusive); empty when j < i
Slice(text, i, j) == [k \in 1..(j - i + 1) |-> text[i + k - 1]]

BLOCK == "a*HISTORY_LIMIT"

Width(c) ==
  CASE c = BLOCK -> HISTORY_LIMIT
    [] c = SEP -> 3
    [] c = MARK_OPEN -> 10
    [] c = MARK_CLOSE -> 3
    [] c = THINK_OPEN -> 7
    [] c = THINK_CLOSE -> 8
    [] c = JSON_OPEN -> 7
    [] c = FENCE -> 3
    [] c = KEY -> 6
    [] c = "(no-result)" -> 5
    [] OTHER -> 1

\* characters in the first k lexemes
RECURSIVE Offset(_, _)
Offset(text, k) == IF k = 0 THEN 0 ELSE Offset(text, k - 1) + Width(text[k])

\* Python's len(text)
TextLen(text) == Offset(text, Len(text))

\* the lexemes that lie within the first n characters
Fit(text, n) == Max({k \in 0..Len(text) : Offset(text, k) <= n})

\* Python's text[:n]
Prefix(text, n) == Slice(text, 1, Fit(text, n))

\* ------------------------------------------------------------------------
\* _clean_result: six substitutions, then strip()

\* re.sub(r'<!--\s*agent:.*?-->', '', text): '.' does not cross a newline
MarkerEnd(text, i) ==
  LET closes == {j \in (i + 1)..Len(text) : text[j] = MARK_CLOSE}
  IN IF text[i] # MARK_OPEN \/ closes = {} THEN 0
     ELSE LET j == Min(closes)
          IN IF \E k \in (i + 1)..(j - 1) : text[k] = NL THEN 0 ELSE j

RECURSIVE StripMarkers(_, _)
StripMarkers(text, from) ==
  LET starts == {i \in from..Len(text) : MarkerEnd(text, i) # 0}
  IN IF starts = {} THEN Slice(text, from, Len(text))
     ELSE LET i == Min(starts)
          IN Slice(text, from, i - 1) \o StripMarkers(text, MarkerEnd(text, i) + 1)

\* re.sub(r'<think>[\s\S]*?</think>', '', text)
ThinkEnd(text, i) ==
  LET closes == {j \in (i + 1)..Len(text) : text[j] = THINK_CLOSE}
  IN IF text[i] # THINK_OPEN \/ closes = {} THEN 0 ELSE Min(closes)

RECURSIVE StripThink(_, _)
StripThink(text, from) ==
  LET starts == {i \in from..Len(text) : ThinkEnd(text, i) # 0}
  IN IF starts = {} THEN Slice(text, from, Len(text))
     ELSE LET i == Min(starts)
          IN Slice(text, from, i - 1) \o StripThink(text, ThinkEnd(text, i) + 1)

\* first index >= i that holds no whitespace (Len(text) + 1 when there is none)
SkipSpace(text, i) ==
  LET stops == {j \in i..Len(text) : ~IsSpace(text[j])}
  IN IF stops = {} THEN Len(text) + 1 ELSE Min(stops)

\* re.sub(r'```json\s*\n?\s*\[[\s\S]*?"(?:task|role)"[\s\S]*?\]\s*\n?```', '', text)
FencedEnd(text, i) ==
  IF text[i] # JSON_OPEN THEN 0
  ELSE LET b == SkipSpace(text, i + 1)
       IN IF b > Len(text) \/ text[b] # LBRACKET THEN 0
          ELSE LET keys == {k \in (b + 1)..Len(text) : text[k] = KEY}
               IN IF keys = {} THEN 0
                  ELSE LET ends == {r \in (Min(keys) + 1)..Len(text) :
                                      /\ text[r] = RBRACKET
                                      /\ SkipSpace(text, r + 1) <= Len(text)
                                      /\ text[SkipSpace(text, r + 1)] = FENCE}
                       IN IF ends = {} THEN 0
                          ELSE SkipSpace(text, Min(ends) + 1)

RECURSIVE StripFenced(_, _)
StripFenced(text, from) ==
  LET starts == {i \in from..Len(text) : FencedEnd(text, i) # 0}
  IN IF starts = {} THEN Slice(text, from, Len(text))
     ELSE LET i == Min(starts)
          IN Slice(text, from, i - 1) \o StripFenced(text, FencedEnd(text, i) + 1)

\* re.sub(r'^\s*\[\s*\{[^}]*"(?:task|role)"[^}]*\}\s*\]\s*$', '', text, flags=re.MULTILINE)
LineStart(text, i) == i = 1 \/ text[i - 1] = NL

LineEnd(text, e) == e = Len(text) \/ text[e + 1] = NL

BareEnd(text, i) ==
  IF ~LineStart(text, i) THEN 0
  ELSE LET b == SkipSpace(text, i)
       IN IF b > Len(text) \/ text[b] # LBRACKET THEN 0
          ELSE LET c == SkipSpace(text, b + 1)
               IN IF c > Len(text) \/ text[c] # LBRACE THEN 0
                  ELSE LET closes == {k \in (c + 1)..Len(text) : text[k] = RBRACE}
                       IN IF closes = {} THEN 0
                          ELSE LET d == Min(closes)
                                   r == SkipSpace(text, d + 1)
                               IN IF ~(\E k \in (c + 1)..(d - 1) : text[k] = KEY) THEN 0
                                  ELSE IF r > Len(text) \/ text[r] # RBRACKET THEN 0
                                  ELSE LET ends == {e \in r..(SkipSpace(text, r + 1) - 1) :
                                                      LineEnd(text, e)}
                                       IN IF ends = {} THEN 0 ELSE Max(ends)

RECURSIVE StripBare(_, _)
StripBare(text, from) ==
  LET starts == {i \in from..Len(text) : BareEnd(text, i) # 0}
  IN IF starts = {} THEN Slice(text, from, Len(text))
     ELSE LET i == Min(starts)
          IN Slice(text, from, i - 1) \o StripBare(text, BareEnd(text, i) + 1)

\* re.sub(r'\n---\n', '\n\n', text): matches do not overlap
RECURSIVE ReplaceSeparators(_, _)
ReplaceSeparators(text, from) ==
  LET starts == {i \in from..(Len(text) - 2) :
                   text[i] = NL /\ text[i + 1] = SEP /\ text[i + 2] = NL}
  IN IF starts = {} THEN Slice(text, from, Len(text))
     ELSE LET i == Min(starts)
          IN Slice(text, from, i - 1) \o <<NL, NL>> \o ReplaceSeparators(text, i + 3)

\* re.sub(r'\n{3,}', '\n\n', text): every newline that follows two newlines goes
DROPPED == ""

CollapseBlank(text) ==
  SelectSeq([i \in 1..Len(text) |->
               IF i > 2 /\ text[i] = NL /\ text[i - 1] = NL /\ text[i - 2] = NL
               THEN DROPPED ELSE text[i]],
            LAMBDA c : c # DROPPED)

DropOne(text) == Slice(text, 2, Len(text))

\* str.strip(), str.lstrip()
LStrip(text) == Slice(text, SkipSpace(text, 1), Len(text))

Strip(text) ==
  IF \A i \in 1..Len(text) : IsSpace(text[i]) THEN <<>>
  ELSE LET last == CHOOSE i \in 1..Len(text) :
                     ~IsSpace(text[i]) /\ \A j \in (i + 1)..Len(text) : IsSpace(text[j])
       IN Slice(text, SkipSpace(text, 1), last)

_clean_result(text) ==
  Strip(CollapseBlank(ReplaceSeparators(StripBare(StripFenced(
    StripThink(StripMarkers(text, 1), 1), 1), 1), 1)))

\* ------------------------------------------------------------------------
\* _chunk_message

\* str.rfind(sub, 0, max_len): the last lexeme index at which sub occurs
\* wholly within the first max_len characters (0 when there is none)
RFind(text, sub, max_len) ==
  LET hits == {p \in 1..(Len(text) - Len(sub) + 1) :
                 /\ \A k \in 1..Len(sub) : text[p + k - 1] = sub[k]
                 /\ Offset(text, p + Len(sub) - 1) <= max_len}
  IN IF hits = {} THEN 0 ELSE Max(hits)

SplitShort(remaining, max_len) == Max({1, Fit(remaining, max_len) - 1})

SplitLate(remaining, max_len) == Fit(remaining, max_len + 1)

\* a split that takes a boundary at the very start of the text too:
\* C39_Terminates fails with it
SplitAtStart(remaining, max_len) ==
  LET para  == RFind(remaining, <<NL, NL>>, max_len)
      line  == RFind(remaining, <<NL>>, max_len)
      space == RFind(remaining, <<SP>>, max_len)
  IN IF para > 0 THEN para - 1
     ELSE IF line > 0 THEN line - 1
     ELSE IF space > 0 THEN space - 1
     ELSE Fit(remaining, max_len)

\* a split that looks for a line break first: C38_BoundaryPriority fails with
\* it
SplitAtLine(remaining, max_len) ==
  LET line  == RFind(remaining, <<NL>>, max_len)
      space == RFind(remaining, <<SP>>, max_len)
  IN IF line > 1 THEN line - 1
     ELSE IF space > 1 THEN space - 1
     ELSE Fit(remaining, max_len)

\* the number of lexemes before the split; "split_at <= 0" is "found at
\* index 0 or not found"
SplitAt(remaining, max_len) ==
  LET para  == RFind(remaining, <<NL, NL>>, max_len)
      line  == RFind(remaining, <<NL>>, max_len)
      space == RFind(remaining, <<SP>>, max_len)
  IN IF para > 1 THEN para - 1
     ELSE IF line > 1 THEN line - 1
     ELSE IF space > 1 THEN space - 1
     ELSE Fit(remaining, max_len)

RECURSIVE ChunkLoop(_, _)
ChunkLoop(remaining, max_len) ==
  IF remaining = <<>> THEN <<>>
  ELSE IF TextLen(remaining) <= max_len THEN <<remaining>>
  ELSE LET split_at == SplitAt(remaining, max_len)
       IN <<Slice(remaining, 1, split_at)>>
            \o ChunkLoop(LStrip(Slice(remaining, split_at + 1, Len(remaining))), max_len)

_chunk_message(text, max_len) ==
  IF TextLen(text) <= max_len THEN <<text>> ELSE ChunkLoop(text, max_len)

\* ------------------------------------------------------------------------
\* Bounds of the model

\* messages enqueued
MaxMsgs == 2

\* polls of one task whose delay is free; the next one reaches TASK_TIMEOUT
MaxPolls == 2

\* _task_processor tasks created
MaxProcs == 2

\* adapter instances created
MaxAdapters == 4

\* start(), stop() and reload() calls while messages are processed or adapters
\* supervised
MaxCalls == 2

\* start(), stop() and reload() calls made in any order
MaxLifeCalls == 3

\* reconnect() tasks created
MaxReconnects == 2

\* threads that call the SessionStore at the same time
MaxThreads == 3

\* verify_pairing_code calls, at the same time or not
MaxVerifies == 3

\* tasks in the TaskBoard when it is read
MaxTasks == 2

\* allow() calls of one RateLimiter
MaxAllows == 1000

\* get_or_create and update_task calls made one after the other
MaxStoreCalls == 3

\* characters of a text passed to _chunk_message, and the limits passed
MaxTextLen == 5

MaxLimit == 4

\* lexemes of a text passed to _clean_result
MaxCleanLen == 7

\* ------------------------------------------------------------------------
\* Inputs

Channels == {"telegram", "discord"}

\* (channel, chat_id) of the inbound messages: two chats of one channel and
\* one chat of another
Origins == {<<"telegram", "100">>, <<"telegram", "200">>, <<"discord", "100">>}

UserIds == {"u1"}

UserNames == {"n1"}

\* what concurrent callers of the SessionStore pass
ThreadOrigins == {<<"telegram", "100">>, <<"discord", "100">>}

ThreadUserIds == {"u1", "u2"}

TaskIds == {1, 2}

\* what a caller of ChannelMessage(...) passes as session_id
SessionIdArgs == {"", "telegram:100", "discord:7"}

\* texts of single characters, and texts of runs of HISTORY_LIMIT letters for
\* the limit DISCORD_LIMIT, which cuts them between two runs
Letters == {"a", "b", SP, NL, TAB}

ShortTexts == UNION {[1..n -> Letters] : n \in 0..MaxTextLen}

BlockTexts ==
  {<<BLOCK>>, <<BLOCK, "a">>, <<BLOCK, BLOCK>>, <<BLOCK, BLOCK, "a">>,
   <<BLOCK, BLOCK, BLOCK>>, <<BLOCK, SP, BLOCK>>, <<BLOCK, NL, NL, BLOCK>>}

ChunkArgs ==
  (ShortTexts \X (1..MaxLimit)) \cup (BlockTexts \X {DISCORD_LIMIT})

\* what the callers of the SessionStore pass, one call after the other
StoreUserIds == {"", "u1", "u2"}

StoreUserNames == {"", "n1"}

PlainText == <<"h", "i">>

BlankText == <<SP>>

MarkedText == <<"o", "k", MARK_OPEN, "x", MARK_CLOSE>>

\* HISTORY_LIMIT + 1 letters
LongText == <<BLOCK, "a">>

\* texts the executor records as a task's result; <<>> is "no result"
ResultTexts == {PlainText, BlankText, MarkedText, LongText}

\* results made of letters, line breaks and separator lines, and the results
\* the executor's agents leave
CleanTexts ==
  UNION {[1..n -> {"a", NL, SEP}] : n \in 0..MaxCleanLen} \cup ResultTexts

\* what one sleep of the poll loop can take: the interval itself, or longer
PollDelays == {POLL_INTERVAL, STATUS_INTERVAL, TASK_TIMEOUT}

\* the statuses a task of the executor can have
TaskStatuses ==
  {"pending", "claimed", "review", "critique", "blocked", "paused",
   "synthesizing", "completed", "failed", "cancelled"}

\* what board._read() returns, as the statuses of its tasks: the submitted
\* task first when it is there
Boards == UNION {[1..n -> TaskStatuses] : n \in 0..MaxTasks}

VARIABLES
  running,        \* ChannelManager._running
  config,         \* channels_config: the enabled channels
  adapters,       \* ChannelManager.adapters: adapter instances, in order
  ad,             \* every adapter instance created so far
  queue,          \* ChannelManager._queue: the waiting messages
  enqueued,       \* number of messages put on the queue so far
  procs,          \* every _task_processor task created so far
  processorTask,  \* ChannelManager._processor_task (0 is None)
  monitors,       \* every _health_monitor task created so far
  healthTask,     \* ChannelManager._health_task (0 is None)
  sessions,       \* the SessionStore file: session id -> record
  history,        \* conversation history: session id -> turns
  status,         \* per message id: "queued", "inflight" or "over"
  calls,          \* start(), stop() and reload() calls made so far
  log,            \* the calls made on a SessionStore by its direct callers
  threads,        \* the threads inside a SessionStore call
  lock,           \* SessionStore.lock: the class behind it and its holder
  call,           \* a call of a pure function: its arguments and result
  auth,           \* UserAuth: the pairing codes file, the trusted users, the
                  \* clock and the verify_pairing_code calls
  limiter         \* a RateLimiter: its buckets, its counter, the clock and the
                  \* number of allow() calls made

vars == <<running, config, adapters, ad, queue, enqueued, procs, processorTask,
          monitors, healthTask, sessions, history, status, calls,
          log, threads, lock, call, auth, limiter>>

\* what the engine leaves alone, and what the store's direct callers do
apart == <<log, threads, lock, call, auth, limiter>>

engine == <<running, config, adapters, ad, queue, enqueued, procs, processorTask,
            monitors, healthTask, history, status, calls>>

\* ------------------------------------------------------------------------
\* SessionStore (session.py)

ChatIdAlone(channel, chat_id) == chat_id

\* f"{channel}:{chat_id}"
SessionId(channel, chat_id) == channel \o ":" \o chat_id

\* time.time(): the store calls made so far by its direct callers
Now == Len(log)

AddedAgain(list, x) == IF x # "" THEN Append(list, x) ELSE list

\* "x not in list": list.append(x) unless x is empty or already there
Added(list, x) ==
  IF x # "" /\ \A k \in 1..Len(list) : list[k] # x THEN Append(list, x)
  ELSE list

NewSession(channel, chat_id, user_id, user_name, now) ==
  [session_id |-> SessionId(channel, chat_id), channel |-> channel,
   chat_id |-> chat_id,
   user_ids |-> IF user_id # "" THEN <<user_id>> ELSE <<>>,
   user_names |-> IF user_name # "" THEN <<user_name>> ELSE <<>>,
   message_count |-> 1, last_task_id |-> 0, last_active |-> now,
   created_at |-> now]

Recreated(session, user_id, user_name, now) ==
  [session EXCEPT !.message_count = @ + 1, !.last_active = now,
                  !.created_at = now]

Touched(session, user_id, user_name, now) ==
  [session EXCEPT
     !.user_ids = Added(@, user_id),
     !.user_names = Added(@, user_name),
     !.message_count = @ + 1,
     !.last_active = now]

\* _read: the file's content, or {} when the file is missing or does not decode
_read(file, ok) == IF ok THEN file ELSE <<>>

\* get_or_create: the file's content after the call, data being what _read
\* returned
get_or_create(data, channel, chat_id, user_id, user_name, now) ==
  LET sid == SessionId(channel, chat_id)
  IN IF sid \in DOMAIN data
     THEN [data EXCEPT ![sid] = Touched(@, user_id, user_name, now)]
     ELSE (sid :> NewSession(channel, chat_id, user_id, user_name, now)) @@ data

\* an update that counts as a message and creates the record it misses:
\* C37_UpdateTaskFrame fails with it
UpdateCounted(data, sid, task_id, now) ==
  IF sid \in DOMAIN data
  THEN [data EXCEPT ![sid].last_task_id = task_id, ![sid].last_active = now,
                    ![sid].message_count = @ + 1]
  ELSE (sid :> [NewSession("", sid, "", "", now) EXCEPT
                  !.last_task_id = task_id]) @@ data

\* update_task: the file's content after the call
update_task(data, sid, task_id, now) ==
  IF sid \in DOMAIN data
  THEN [data EXCEPT ![sid].last_task_id = task_id, ![sid].last_active = now]
  ELSE data

\* SessionStore.add_message: append a turn to the session's conversation record
add_message(hist, sid, role, content) ==
  IF sid \in DOMAIN hist
  THEN [hist EXCEPT ![sid] = Append(@, [role |-> role, content |-> content])]
  ELSE (sid :> <<[role |-> role, content |-> content]>>) @@ hist

\* ------------------------------------------------------------------------
\* Adapters and tasks

\* An adapter instance: _running, TelegramAdapter._intentional_stop (stopping)
\* and the reconnect() tasks created for it so far
NewAdapter(name) ==
  [name |-> name, running |-> FALSE, stopping |-> FALSE, reconnects |-> <<>>]

\* _get_adapter: the first registered adapter of that channel (0 is None)
FirstAdapter(channel_name) == IF adapters = <<>> THEN 0 ELSE adapters[1]

_get_adapter(channel_name) ==
  LET hits == {k \in 1..Len(adapters) : ad[adapters[k]].name = channel_name}
  IN IF hits = {} THEN 0 ELSE adapters[Min(hits)]

NoMsg ==
  [id |-> 0, channel |-> "", chat_id |-> "", user_id |-> "", user_name |-> ""]

\* the text of an inbound message
USER_TEXT == <<"m">>

\* A _task_processor task.  msg, via (the adapter), elapsed, status_sent,
\* result and chunks are the locals of _task_processor, _process_message and
\* _wait_for_result; the other fields record what was done for msg: the session
\* get_or_create returned (fresh, count), the history length at dequeue (hlen),
\* the adapter calls made (sent), the polls made (polls), whether polling
\* returned (returned: from the text raw, after the grace wait if graced) or
\* ran out (timed_out), and how the message ended.
IdleProc ==
  [st |-> "run", pc |-> "idle", msg |-> NoMsg, via |-> 0, fresh |-> FALSE,
   count |-> 0, hlen |-> 0, sent |-> <<>>, elapsed |-> 0, polls |-> 0,
   status_sent |-> FALSE, raw |-> <<>>, graced |-> FALSE, returned |-> FALSE,
   timed_out |-> FALSE, result |-> <<>>, submits |-> 0, chunks |-> <<>>,
   ended |-> ""]

DeadProc == [IdleProc EXCEPT !.st = "done"]

\* A _health_monitor task: asleep, or awaiting health_check() of adapter a,
\* the i-th of self.adapters; fired records the adapters whose reconnect() the
\* task has called since it last woke
IdleMonitor == [st |-> "run", pc |-> "sleep", i |-> 0, a |-> 0, fired |-> <<>>]

DeadMonitor == [IdleMonitor EXCEPT !.st = "done"]

Live(p) == procs[p].st = "run"

InFlight(p) == Live(p) /\ procs[p].pc # "idle"

\* SessionStore.lock before any call; real is whether the filelock package is
\* there, holder the thread inside "with self.lock" (0 is nobody)
NoLock == [real |-> TRUE, holder |-> 0, made |-> FALSE]

\* what a call made: a value returned, or an exception raised to the caller
Returned(value) == [raised |-> FALSE, value |-> value]

Raised == [raised |-> TRUE, value |-> ""]

NoCall ==
  [op |-> "", msg |-> NoMsg, text |-> <<>>, max_len |-> 0, chunks |-> <<>>,
   result |-> Returned("")]

\* RateLimiter.__init__: no bucket, _cleanup_counter = 0
NewLimiter == [buckets |-> <<>>, _cleanup_counter |-> 0, now |-> 0, allows |-> 0]

\* UserAuth before any call: no code, no failed attempt, nobody trusted
NoAuth ==
  [codes |-> <<>>, attempts |-> <<>>, trusted |-> {}, now |-> 0, made |-> {},
   verifies |-> <<>>]

Init ==
  /\ running = FALSE
  /\ config = Channels
  /\ adapters = <<>>
  /\ ad = <<>>
  /\ queue = <<>>
  /\ enqueued = 0
  /\ procs = <<>>
  /\ processorTask = 0
  /\ monitors = <<>>
  /\ healthTask = 0
  /\ sessions = <<>>
  /\ history = <<>>
  /\ status = <<>>
  /\ calls = 0
  /\ log = <<>>
  /\ threads = <<>>
  /\ lock = NoLock
  /\ call = NoCall
  /\ auth = NoAuth
  /\ limiter = NewLimiter

\* ------------------------------------------------------------------------
\* ChannelManager.start, stop, reload

\* the order of the channels in channels_config
ChannelOrder == <<"telegram", "discord">>

Enabled(cfg) == SelectSeq(ChannelOrder, LAMBDA c : c \in cfg)

\* _load_adapters: one new instance per enabled channel, appended
LoadedInstances(cfg) ==
  ad \o [k \in 1..Len(Enabled(cfg)) |-> NewAdapter(Enabled(cfg)[k])]

\* a loader that registers each new adapter twice: C11_OncePerTick fails with it
RegisteredTwice(list, cfg) ==
  list \o [k \in 1..Len(Enabled(cfg)) |-> Len(ad) + k]
       \o [k \in 1..Len(Enabled(cfg)) |-> Len(ad) + k]

LoadedAdapters(list, cfg) ==
  list \o [k \in 1..Len(Enabled(cfg)) |-> Len(ad) + k]

Ids(list) == {list[k] : k \in 1..Len(list)}

\* adapter.start() on every adapter of list; it succeeds for those in ok.
\* TelegramAdapter.start clears _intentional_stop before it connects.
StartAll(insts, list, ok) ==
  [a \in 1..Len(insts) |->
     IF a \notin Ids(list) THEN insts[a]
     ELSE IF a \in ok THEN [insts[a] EXCEPT !.running = TRUE, !.stopping = FALSE]
     ELSE [insts[a] EXCEPT !.stopping = FALSE]]

\* The adapters whose start() returns rather than raises: all of them, or all
\* but one
StartOutcomes(list) == {Ids(list)} \cup {Ids(list) \ {a} : a \in Ids(list)}

\* adapter.stop() on every adapter of list
StopAll(insts, list) ==
  [a \in 1..Len(insts) |->
     IF a \notin Ids(list) THEN insts[a]
     ELSE [insts[a] EXCEPT !.running = FALSE,
                           !.stopping = (insts[a].name = "telegram") \/ @]]

\* a task is created and runs to its first await: the loop test on _running
BornProc(isRunning) == IF isRunning THEN IdleProc ELSE DeadProc

BornMonitor(isRunning) == IF isRunning THEN IdleMonitor ELSE DeadMonitor

start ==
  /\ calls < MaxLifeCalls
  /\ Len(ad) + Cardinality(config) <= MaxAdapters
  /\ Len(procs) < MaxProcs
  /\ calls' = calls + 1
  /\ running' = TRUE
  /\ adapters' = LoadedAdapters(adapters, config)
  /\ IF adapters' = <<>>
     THEN /\ ad' = LoadedInstances(config)
          /\ UNCHANGED <<procs, processorTask, monitors, healthTask>>
     ELSE /\ \E ok \in StartOutcomes(adapters') :
               ad' = StartAll(LoadedInstances(config), adapters', ok)
          /\ procs' = Append(procs, IdleProc)
          /\ processorTask' = Len(procs) + 1
          /\ monitors' = Append(monitors, IdleMonitor)
          /\ healthTask' = Len(monitors) + 1
  /\ UNCHANGED <<config, queue, enqueued, sessions, history, status>>

\* task.cancel() and await task: the task ends at the await it is suspended in
Cancelled(tasks, t, dead) ==
  IF t = 0 THEN tasks ELSE [tasks EXCEPT ![t] = dead]

CancelledStatus(t) ==
  IF t # 0 /\ InFlight(t)
  THEN [status EXCEPT ![procs[t].msg.id] = "over"] ELSE status

\* "await task" on a task that ended with an exception raises it again
Raises(tasks, t) == t # 0 /\ tasks[t].st = "crashed"

stop ==
  /\ calls < MaxLifeCalls
  /\ calls' = calls + 1
  /\ running' = FALSE
  /\ IF Raises(procs, processorTask)
     THEN UNCHANGED <<procs, status, monitors, ad>>
     ELSE /\ procs' = Cancelled(procs, processorTask, DeadProc)
          /\ status' = CancelledStatus(processorTask)
          /\ monitors' = Cancelled(monitors, healthTask, DeadMonitor)
          /\ ad' = StopAll(ad, adapters)
  /\ UNCHANGED <<config, adapters, queue, enqueued, processorTask, healthTask,
                 sessions, history>>

\* a reload that creates its tasks whatever is running: C2_OneInFlight fails
\* with it
AlwaysNeedsTask(tasks, t) == TRUE

\* "Ensure processor task is running": not self._processor_task or .done()
NeedsTask(tasks, t) == t = 0 \/ tasks[t].st # "run"

reload ==
  /\ calls < MaxLifeCalls
  /\ calls' = calls + 1
  /\ \/ \* the config file cannot be read: return with no adapters
        /\ ad' = StopAll(ad, adapters)
        /\ adapters' = <<>>
        /\ UNCHANGED <<config, procs, processorTask, monitors, healthTask>>
     \/ \E cfg \in SUBSET Channels :
          /\ Len(ad) + Cardinality(cfg) <= MaxAdapters
          /\ NeedsTask(procs, processorTask) => Len(procs) < MaxProcs
          /\ config' = cfg
          /\ adapters' = LoadedAdapters(<<>>, cfg)
          /\ \E ok \in StartOutcomes(adapters') :
               ad' = StartAll(StopAll(LoadedInstances(cfg), adapters), adapters', ok)
          /\ IF NeedsTask(procs, processorTask)
             THEN /\ procs' = Append(procs, BornProc(running))
                  /\ processorTask' = Len(procs) + 1
             ELSE UNCHANGED <<procs, processorTask>>
          /\ IF NeedsTask(monitors, healthTask)
             THEN /\ monitors' = Append(monitors, BornMonitor(running))
                  /\ healthTask' = Len(monitors) + 1
             ELSE UNCHANGED <<monitors, healthTask>>
  /\ UNCHANGED <<running, queue, enqueued, sessions, history, status>>

\* ------------------------------------------------------------------------
\* _on_message: a running adapter of the channel enqueues a message

_on_message ==
  /\ enqueued < MaxMsgs
  /\ \E o \in Origins, u \in UserIds, n \in UserNames :
       /\ \E a \in 1..Len(ad) : ad[a].name = o[1] /\ ad[a].running
       /\ queue' = Append(queue, [id |-> enqueued + 1, channel |-> o[1],
                                  chat_id |-> o[2], user_id |-> u,
                                  user_name |-> n])
  /\ enqueued' = enqueued + 1
  /\ status' = Append(status, "queued")
  /\ UNCHANGED <<running, config, adapters, ad, procs, processorTask, monitors,
                 healthTask, sessions, history, calls>>

\* ------------------------------------------------------------------------
\* _task_processor, _process_message, _wait_for_result.  Each action is one
\* awaited call of the task and the code that follows it up to the next await.

Sid(rec) == SessionId(rec.msg.channel, rec.msg.chat_id)

HistoryLen(sid) == IF sid \in DOMAIN history THEN Len(history[sid]) ELSE 0

\* an adapter call made through the first adapter, whatever the channel:
\* C34_SendsToOrigin fails with it
SentByFirst(rec, kind, part) ==
  [rec EXCEPT !.sent = Append(@, [kind |-> kind, chat_id |-> rec.msg.chat_id,
                                  channel |-> ad[1].name, part |-> part])]

\* an adapter call made for the message in hand
Sent(rec, kind, part) ==
  [rec EXCEPT !.sent = Append(@, [kind |-> kind, chat_id |-> rec.msg.chat_id,
                                  channel |-> ad[rec.via].name, part |-> part])]

\* back at "while self._running": wait on the queue again, or leave the loop
LoopTop(rec, how) ==
  [rec EXCEPT !.pc = "idle", !.ended = how,
              !.st = IF running THEN "run" ELSE "done"]

Over(rec) == [status EXCEPT ![rec.msg.id] = "over"]

\* a queue served last in, first out: C1_Fifo fails with it
PopLast(q) == [msg |-> q[Len(q)], rest |-> SubSeq(q, 1, Len(q) - 1)]

\* a get() that leaves the message on the queue: C35_ProcessedOnce fails with
\* it
Peek(q) == [msg |-> Head(q), rest |-> q]

\* asyncio.Queue.get(): the oldest message, and the queue without it
Pop(q) == [msg |-> Head(q), rest |-> Tail(q)]

\* queue.get() returns: route, get_or_create (which may raise), queue size
Dequeued(p) ==
  LET msg == Pop(queue).msg
      via == _get_adapter(msg.channel)
      sid == SessionId(msg.channel, msg.chat_id)
      got == [IdleProc EXCEPT !.msg = msg, !.via = via]
  IN /\ Live(p) /\ procs[p].pc = "idle" /\ queue # <<>>
     /\ queue' = Pop(queue).rest
     /\ IF via = 0
        THEN /\ procs' = [procs EXCEPT ![p] = LoopTop(got, "dropped")]
             /\ status' = Over(got)
             /\ UNCHANGED sessions
        ELSE \/ /\ sessions' = get_or_create(sessions, msg.channel, msg.chat_id,
                                             msg.user_id, msg.user_name, Now)
                /\ procs' = [procs EXCEPT ![p] =
                     [got EXCEPT !.fresh = sid \notin DOMAIN sessions,
                                 !.count = sessions'[sid].message_count,
                                 !.hlen = HistoryLen(sid),
                                 !.pc = IF Len(queue') > 0 THEN "notice"
                                        ELSE "typing"]]
                /\ status' = [status EXCEPT ![msg.id] = "inflight"]
             \/ \* the store raises (the file cannot be read or written)
                /\ procs' = [procs EXCEPT ![p] =
                     [got EXCEPT !.st = "crashed", !.ended = "crashed"]]
                /\ status' = Over(got)
                /\ UNCHANGED sessions
     /\ UNCHANGED <<running, config, adapters, ad, enqueued, processorTask,
                    monitors, healthTask, history, calls>>

\* wait_for times out on an empty queue: "continue", and the loop test fails
LoopExit(p) ==
  /\ Live(p) /\ procs[p].pc = "idle" /\ ~running
  /\ procs' = [procs EXCEPT ![p].st = "done"]
  /\ UNCHANGED <<running, config, adapters, ad, queue, enqueued, processorTask,
                 monitors, healthTask, sessions, history, status, calls>>

\* a step of task p that touches only the task itself
Step(p, pc, rec) ==
  /\ Live(p) /\ procs[p].pc = pc
  /\ procs' = [procs EXCEPT ![p] = rec]
  /\ UNCHANGED <<running, config, adapters, ad, queue, enqueued, processorTask,
                 monitors, healthTask, sessions, history, status, calls>>

\* a step of task p that ends the message
Finish(p, pc, rec, how) ==
  /\ Live(p) /\ procs[p].pc = pc
  /\ procs' = [procs EXCEPT ![p] = LoopTop(rec, how)]
  /\ status' = Over(rec)
  /\ UNCHANGED <<running, config, adapters, ad, queue, enqueued, processorTask,
                 monitors, healthTask, sessions, history, calls>>

QueueNotice(p) ==
  Step(p, "notice", [Sent(procs[p], "notice", 0) EXCEPT !.pc = "typing"])

\* send_typing, then the user turn is recorded and the history is loaded
Typing(p) ==
  /\ Live(p) /\ procs[p].pc = "typing"
  /\ procs' = [procs EXCEPT ![p] = [Sent(@, "typing", 0) EXCEPT !.pc = "submit"]]
  /\ history' = add_message(history, Sid(procs[p]), "user", USER_TEXT)
  /\ UNCHANGED <<running, config, adapters, ad, queue, enqueued, processorTask,
                 monitors, healthTask, sessions, status, calls>>

\* _submit_task returns a task id or None; update_task may raise
Submit(p) ==
  /\ Live(p) /\ procs[p].pc = "submit"
  /\ \/ /\ procs' = [procs EXCEPT ![p].submits = @ + 1, ![p].pc = "submit_failed"]
        /\ UNCHANGED sessions
     \/ /\ sessions' = update_task(sessions, Sid(procs[p]), procs[p].msg.id,
                                   Now)
        /\ procs' = [procs EXCEPT ![p].submits = @ + 1, ![p].pc = "ack"]
     \/ /\ procs' = [procs EXCEPT ![p].submits = @ + 1, ![p].pc = "failed"]
        /\ UNCHANGED sessions
  /\ UNCHANGED <<running, config, adapters, ad, queue, enqueued, processorTask,
                 monitors, healthTask, history, status, calls>>

\* a processor that submits again after a failure: C23_SubmitFails fails with it
SubmitAgain(p) ==
  Step(p, "submit_failed", [procs[p] EXCEPT !.pc = "submit"])

SubmitFailed(p) ==
  Finish(p, "submit_failed", Sent(procs[p], "submit_failed", 0), "submit_failed")

\* a processor that polls without the acknowledgement: C29_StepsInOrder fails
\* with it
AckSkipped(p) ==
  Step(p, "ack", [procs[p] EXCEPT
                    !.pc = "poll", !.elapsed = 0, !.status_sent = FALSE])

\* the acknowledgement; _wait_for_result starts: start = now, status_sent = False
Ack(p) ==
  Step(p, "ack", [Sent(procs[p], "ack", 0) EXCEPT
                    !.pc = "poll", !.elapsed = 0, !.status_sent = FALSE])

\* one read of the TaskBoard
BoardReads ==
  {[kind |-> k, root |-> <<>>] : k \in {"empty", "active", "error"}}
    \cup {[kind |-> "done", root |-> r] : r \in ResultTexts \cup {<<>>}}

\* the re-read after the grace wait, and what collect_results returns
GraceReads ==
  {[kind |-> "done", root |-> r, collected |-> <<>>] : r \in ResultTexts}
    \cup {[kind |-> "done", root |-> <<>>, collected |-> c] :
            c \in ResultTexts \cup {<<>>}}
    \cup {[kind |-> "error", root |-> <<>>, collected |-> <<>>]}

\* a test that looks at the submitted task alone: C30_WaitsWhileActive fails
\* with it
root_active(data) ==
  data[1] \in {"pending", "claimed", "review", "critique", "blocked",
               "paused", "synthesizing"}

\* "has_active = any(t.get("status") in active_states for t in data.values())"
has_active(data) ==
  \E i \in 1..Len(data) :
    data[i] \in {"pending", "claimed", "review", "critique", "blocked",
                 "paused", "synthesizing"}

\* what a poll makes of the data it read: "if not data: continue",
\* "if not has_active:" with the root task's result, or neither
BoardRead(data, root) ==
  IF data = <<>> THEN [kind |-> "empty", root |-> <<>>]
  ELSE IF has_active(data) THEN [kind |-> "active", root |-> <<>>]
  ELSE [kind |-> "done", root |-> root]

Clock(elapsed, d) ==
  IF elapsed + d < TASK_TIMEOUT THEN elapsed + d ELSE TASK_TIMEOUT

\* a loop that hands out the placeholder when the time is up: C7_Timeout fails
\* with it
LoopTestPlaceholder(rec) ==
  IF rec.elapsed < TASK_TIMEOUT THEN [rec EXCEPT !.pc = "poll"]
  ELSE [rec EXCEPT !.pc = "chunk", !.timed_out = TRUE, !.result = NO_RESULT,
                   !.chunks = <<NO_RESULT>>]

\* "while time.time() - start < TASK_TIMEOUT": poll again, or return None
LoopTest(rec) ==
  IF rec.elapsed < TASK_TIMEOUT THEN [rec EXCEPT !.pc = "poll"]
  ELSE [rec EXCEPT !.pc = "timeout_notice", !.timed_out = TRUE]

\* _wait_for_result returned result, got from raw: "if result:" in
\* _process_message
Chunked(rec, raw, result) ==
  IF result # <<>>
  THEN [rec EXCEPT !.returned = TRUE, !.raw = raw, !.result = result,
          !.pc = "chunk",
          !.chunks = _chunk_message(result, PLATFORM_LIMITS(rec.msg.channel))]
  ELSE [rec EXCEPT !.returned = TRUE, !.raw = raw, !.result = result,
          !.pc = "timeout_notice"]

\* the assistant turn recorded whole: C6_FirstReply fails with it
RecordedWhole(rec, result) ==
  IF result # <<>> THEN add_message(history, Sid(rec), "assistant", result)
  ELSE history

\* "if result:" the assistant turn is result[:2000]
Recorded(rec, result) ==
  IF result # <<>>
  THEN add_message(history, Sid(rec), "assistant", Prefix(result, HISTORY_LIMIT))
  ELSE history

\* the test without its flag: C9_StillWorkingOnce fails with it
StatusDueUnflagged(rec) == rec.elapsed > STATUS_INTERVAL

\* "if not status_sent and elapsed > STATUS_INTERVAL"
StatusDue(rec) == ~rec.status_sent /\ rec.elapsed > STATUS_INTERVAL

\* what one poll does with the data it read
Polled(rec, read) ==
  CASE read.kind = "error" -> [rec EXCEPT !.pc = "failed"]
    [] read.kind = "empty" -> LoopTest(rec)
    [] read.kind = "active" ->
         IF StatusDue(rec) THEN [rec EXCEPT !.pc = "status"] ELSE LoopTest(rec)
    [] read.kind = "done" ->
         IF read.root # <<>> THEN Chunked(rec, read.root, _clean_result(read.root))
         ELSE [rec EXCEPT !.pc = "grace", !.graced = TRUE]

\* asyncio.sleep(POLL_INTERVAL), then one read
Poll(p) ==
  /\ Live(p) /\ procs[p].pc = "poll"
  /\ \E d \in IF procs[p].polls < MaxPolls THEN PollDelays ELSE {TASK_TIMEOUT},
        read \in BoardReads :
       LET rec == [procs[p] EXCEPT !.elapsed = Clock(@, d), !.polls = @ + 1]
       IN /\ procs' = [procs EXCEPT ![p] = Polled(rec, read)]
          /\ history' = IF read.kind = "done" /\ read.root # <<>>
                        THEN Recorded(rec, _clean_result(read.root))
                        ELSE history
  /\ UNCHANGED <<running, config, adapters, ad, queue, enqueued, processorTask,
                 monitors, healthTask, sessions, status, calls>>

\* the "still working" typing indicator of the poll loop
StillWorking(p) ==
  Step(p, "status",
       LoopTest([Sent(procs[p], "status", 0) EXCEPT !.status_sent = TRUE]))

GraceRaw(read) == IF read.root # <<>> THEN read.root ELSE read.collected

\* a fallback that prefers the aggregated result: C31_PreferenceOrder fails
\* with it
CollectedFirst(read) ==
  IF read.collected # <<>> THEN _clean_result(read.collected)
  ELSE IF read.root # <<>> THEN _clean_result(read.root)
  ELSE NO_RESULT

GraceResult(read) ==
  IF read.root # <<>> THEN _clean_result(read.root)
  ELSE IF read.collected # <<>> THEN _clean_result(read.collected)
  ELSE NO_RESULT

\* asyncio.sleep(2), a second read, then the fallbacks
Grace(p) ==
  /\ Live(p) /\ procs[p].pc = "grace"
  /\ \E read \in GraceReads :
       IF read.kind = "error"
       THEN procs' = [procs EXCEPT ![p].pc = "failed"] /\ UNCHANGED history
       ELSE /\ procs' = [procs EXCEPT ![p] =
                           Chunked(@, GraceRaw(read), GraceResult(read))]
            /\ history' = Recorded(procs[p], GraceResult(read))
  /\ UNCHANGED <<running, config, adapters, ad, queue, enqueued, processorTask,
                 monitors, healthTask, sessions, status, calls>>

\* one chunk is sent (and, with several chunks, the 0.5 s pause is taken)
SendChunk(p) ==
  LET k == Cardinality({j \in 1..Len(procs[p].sent) :
                          procs[p].sent[j].kind = "chunk"}) + 1
  IN IF k < Len(procs[p].chunks)
     THEN Step(p, "chunk", Sent(procs[p], "chunk", k))
     ELSE Finish(p, "chunk", Sent(procs[p], "chunk", k), "delivered")

TimeoutNotice(p) ==
  Finish(p, "timeout_notice", Sent(procs[p], "timeout", 0), "timeout")

\* "except Exception": the failure notice, best effort
FailureNotice(p) ==
  Finish(p, "failed", Sent(procs[p], "failed", 0), "failed")

Processor(p) ==
  \/ Dequeued(p)
  \/ LoopExit(p)
  \/ QueueNotice(p)
  \/ Typing(p)
  \/ Submit(p)
  \/ SubmitFailed(p)
  \/ Ack(p)
  \/ Poll(p)
  \/ StillWorking(p)
  \/ Grace(p)
  \/ SendChunk(p)
  \/ TimeoutNotice(p)
  \/ FailureNotice(p)

\* ------------------------------------------------------------------------
\* _health_monitor and the reconnect() tasks it creates

\* the for loop reaches index i: "if not self._running: break", the next
\* adapter, or the end of the list and the "while self._running" test
NextCheck(rec, i) ==
  IF running /\ i <= Len(adapters)
  THEN [rec EXCEPT !.pc = "check", !.i = i, !.a = adapters[i]]
  ELSE [rec EXCEPT !.pc = "sleep", !.i = 0, !.a = 0,
                   !.st = IF running THEN "run" ELSE "done"]

\* asyncio.sleep(HEALTH_CHECK_INTERVAL) returns
Wake(m) ==
  /\ monitors[m].st = "run" /\ monitors[m].pc = "sleep"
  /\ monitors' = [monitors EXCEPT ![m] = NextCheck([@ EXCEPT !.fired = <<>>], 1)]
  /\ UNCHANGED <<running, config, adapters, ad, queue, enqueued, procs,
                 processorTask, healthTask, sessions, history, status, calls>>

\* health_check(): TelegramAdapter asks the network when it is running, the
\* base class answers _running
HealthChecks(adapter) ==
  IF adapter.name = "telegram" /\ adapter.running THEN {TRUE, FALSE}
  ELSE {adapter.running}

NewReconnect == [pc |-> "begin", delay |-> 0]

DoneReconnect == [pc |-> "done", delay |-> 0]

\* every reconnect() task created so far: <<adapter, number>>
Reconnects ==
  {t \in (1..Len(ad)) \X (1..MaxReconnects) : t[2] <= Len(ad[t[1]].reconnects)}

\* a supervisor that reconnects whatever the answer: C36_ReconnectIffDead
\* fails with it
Reconnected(insts, a, alive) ==
  [insts EXCEPT ![a].reconnects = Append(@, NewReconnect)]

\* "if not alive: asyncio.create_task(adapter.reconnect())"
Supervised(insts, a, alive) ==
  IF alive THEN insts
  ELSE [insts EXCEPT ![a].reconnects = Append(@, NewReconnect)]

\* the call of reconnect() noted in the task's record
Fired(rec, alive) ==
  IF alive THEN rec ELSE [rec EXCEPT !.fired = Append(@, rec.a)]

\* how "alive = await adapter.health_check()" can end: with an answer, or,
\* when the adapter runs and its check goes out to the platform, with an
\* exception, which "except Exception" logs
HealthOutcomes(adapter) ==
  {IF alive THEN "alive" ELSE "dead" : alive \in HealthChecks(adapter)}
    \cup (IF adapter.running THEN {"raised"} ELSE {})

\* health_check() of the adapter in hand ends with out
Probe(m, out) ==
  /\ monitors[m].st = "run" /\ monitors[m].pc = "check"
  /\ out \in HealthOutcomes(ad[monitors[m].a])
  /\ out = "dead" => Cardinality(Reconnects) < MaxReconnects
  /\ ad' = IF out = "raised" THEN ad
           ELSE Supervised(ad, monitors[m].a, out = "alive")
  /\ monitors' = [monitors EXCEPT ![m] =
                    NextCheck(IF out = "raised" THEN @
                              ELSE Fired(@, out = "alive"),
                              monitors[m].i + 1)]
  /\ UNCHANGED <<running, config, adapters, queue, enqueued, procs,
                 processorTask, healthTask, sessions, history, status, calls>>

Check(m) == \E out \in {"alive", "dead", "raised"} : Probe(m, out)

Monitor(m) == Wake(m) \/ Check(m)

Pending(task) == task.pc # "done"

\* "delay = min(delay * 2, _RECONNECT_MAX_DELAY)"
Backoff(delay) ==
  IF delay * 2 < _RECONNECT_MAX_DELAY THEN delay * 2 ELSE _RECONNECT_MAX_DELAY

\* TelegramAdapter.reconnect: one step of task k of adapter x, from one await
\* to the next; ok is whether _connect() succeeds.  "connect" is the loop test
\* "while not self._intentional_stop", "connecting" the await of _connect()
TelegramReconnect(x, k, ok) ==
  LET task == x.reconnects[k]
  IN CASE task.pc = "begin" ->
            IF x.stopping THEN [x EXCEPT !.reconnects[k] = DoneReconnect]
            ELSE [x EXCEPT !.running = FALSE,
                           !.reconnects[k] =
                              [pc |-> "connect", delay |-> _RECONNECT_BASE_DELAY]]
       [] task.pc = "connect" ->
            IF x.stopping THEN [x EXCEPT !.reconnects[k] = DoneReconnect]
            ELSE [x EXCEPT !.reconnects[k].pc = "connecting"]
       [] task.pc = "connecting" ->
            IF ok
            THEN [x EXCEPT !.running = TRUE, !.reconnects[k] = DoneReconnect]
            ELSE IF x.stopping
            THEN [x EXCEPT !.reconnects[k] = DoneReconnect]
            ELSE [x EXCEPT !.reconnects[k].pc = "sleep"]
       [] task.pc = "sleep" ->
            [x EXCEPT !.reconnects[k] =
                        [pc |-> "connect", delay |-> Backoff(task.delay)]]

\* ChannelAdapter.reconnect: "await self.stop()", then "await self.start()"
BaseReconnect(x, k, ok) ==
  LET task == x.reconnects[k]
  IN IF task.pc = "begin"
     THEN [x EXCEPT !.running = FALSE, !.reconnects[k].pc = "start"]
     ELSE [x EXCEPT !.running = ok, !.reconnects[k].pc = "done"]

Reconnect(a, k) ==
  /\ Pending(ad[a].reconnects[k])
  /\ \E ok \in BOOLEAN :
       ad' = [ad EXCEPT ![a] = IF @.name = "telegram"
                                THEN TelegramReconnect(@, k, ok)
                                ELSE BaseReconnect(@, k, ok)]
  /\ UNCHANGED <<running, config, adapters, queue, enqueued, procs,
                 processorTask, monitors, healthTask, sessions, history, status,
                 calls>>

\* ------------------------------------------------------------------------
\* SessionStore called from several threads: each call enters self.lock,
\* reads the file, and writes it back

\* SessionStore.__init__: self.lock = FileLock(SESSIONS_LOCK), FileLock being
\* filelock's class when the package is importable and the no-op class
\* otherwise
StoreInit ==
  /\ ~lock.made
  /\ \E real \in BOOLEAN : lock' = [real |-> real, holder |-> 0, made |-> TRUE]
  /\ UNCHANGED <<sessions, log, threads, call>>
  /\ UNCHANGED <<engine, auth, limiter>>

NewThread(op, channel, chat_id, user_id, user_name, task_id) ==
  [op |-> op, channel |-> channel, chat_id |-> chat_id, user_id |-> user_id,
   user_name |-> user_name, task_id |-> task_id, pc |-> "enter",
   data |-> <<>>, found |-> FALSE]

\* a thread calls get_or_create or update_task
ThreadCall ==
  /\ lock.made
  /\ Len(threads) < MaxThreads
  /\ \E o \in ThreadOrigins, u \in ThreadUserIds, n \in UserNames,
        task_id \in TaskIds, op \in {"get_or_create", "update_task"} :
       threads' = Append(threads,
                         IF op = "get_or_create"
                         THEN NewThread(op, o[1], o[2], u, n, 0)
                         ELSE NewThread(op, o[1], o[2], "", "", task_id))
  /\ UNCHANGED <<sessions, log, lock, call>>
  /\ UNCHANGED <<engine, auth, limiter>>

\* "with self.lock:" on the way in; the no-op class lets everybody in
Enter(t) ==
  /\ threads[t].pc = "enter"
  /\ lock.real => lock.holder = 0
  /\ lock' = IF lock.real THEN [lock EXCEPT !.holder = t] ELSE lock
  /\ threads' = [threads EXCEPT ![t].pc = "read"]
  /\ UNCHANGED <<sessions, log, call>>
  /\ UNCHANGED <<engine, auth, limiter>>

\* data = self._read()
Read(t) ==
  /\ threads[t].pc = "read"
  /\ threads' = [threads EXCEPT
                   ![t].pc = "write",
                   ![t].data = sessions,
                   ![t].found = SessionId(threads[t].channel,
                                          threads[t].chat_id) \in
                                  DOMAIN sessions]
  /\ UNCHANGED <<sessions, log, lock, call>>
  /\ UNCHANGED <<engine, auth, limiter>>

\* the rest of the call: self._write(data), which update_task does only for a
\* session it found, and "with self.lock:" on the way out
Write(t) ==
  /\ threads[t].pc = "write"
  /\ LET x == threads[t]
     IN sessions' =
          IF x.op = "get_or_create"
          THEN get_or_create(x.data, x.channel, x.chat_id, x.user_id,
                             x.user_name, Now)
          ELSE IF x.found
          THEN update_task(x.data, SessionId(x.channel, x.chat_id), x.task_id,
                           Now)
          ELSE sessions
  /\ lock' = IF lock.real THEN [lock EXCEPT !.holder = 0] ELSE lock
  /\ threads' = [threads EXCEPT ![t].pc = "done"]
  /\ UNCHANGED <<log, call>>
  /\ UNCHANGED <<engine, auth, limiter>>

\* SessionStore called by one caller at a time; oks says what the reads of the
\* file can do: succeed (TRUE) or find the file missing or undecodable (FALSE)

Logged(op, channel, chat_id, user_id, user_name, task_id, ok) ==
  Append(log, [op |-> op, channel |-> channel, chat_id |-> chat_id,
               user_id |-> user_id, user_name |-> user_name,
               task_id |-> task_id, ok |-> ok])

GetOrCreate(oks) ==
  /\ Len(log) < MaxStoreCalls
  /\ \E o \in Origins, u \in StoreUserIds, n \in StoreUserNames, ok \in oks :
       /\ sessions' = get_or_create(_read(sessions, ok), o[1], o[2], u, n, Now)
       /\ log' = Logged("get_or_create", o[1], o[2], u, n, 0, ok)
  /\ UNCHANGED <<threads, lock, call>>
  /\ UNCHANGED <<engine, auth, limiter>>

UpdateTask(oks) ==
  /\ Len(log) < MaxStoreCalls
  /\ \E o \in Origins, task_id \in TaskIds, ok \in oks :
       LET data == _read(sessions, ok)
           sid == SessionId(o[1], o[2])
       IN /\ sessions' = IF sid \in DOMAIN data
                         THEN update_task(data, sid, task_id, Now)
                         ELSE sessions
          /\ log' = Logged("update_task", o[1], o[2], "", "", task_id, ok)
  /\ UNCHANGED <<threads, lock, call>>
  /\ UNCHANGED <<engine, auth, limiter>>

NextStore ==
  \/ GetOrCreate({TRUE})
  \/ UpdateTask({TRUE})

SpecStore == Init /\ [][NextStore]_vars

\* the same callers, on a file that a read may find missing or undecodable
NextFaults ==
  \/ GetOrCreate(BOOLEAN)
  \/ UpdateTask(BOOLEAN)

SpecFaults == Init /\ [][NextFaults]_vars

NextThreads ==
  \/ StoreInit
  \/ ThreadCall
  \/ \E t \in 1..Len(threads) : Enter(t)
  \/ \E t \in 1..Len(threads) : Read(t)
  \/ \E t \in 1..Len(threads) : Write(t)

SpecThreads == Init /\ [][NextThreads]_vars

\* ------------------------------------------------------------------------
\* UserAuth (user_auth.py): pairing codes.  The files are read when a call
\* starts and written when it ends; other calls may run in between

\* codes an admin generates, and what users submit: the code, the code with a
\* space before it, and another code
Codes == {"111111"}

CodeArgs == {"111111", " 111111", "222222"}

PairUsers == {"u1", "u2"}

\* hashlib.sha256(code.strip().encode()).hexdigest()
CodeHash(code) == "sha256:" \o (IF code = " 111111" THEN "111111" ELSE code)

\* the clock readings that matter: a code just made, one second old, exactly
\* at its expiry, and past it
Times == {0, 1, CODE_EXPIRY_SECONDS, CODE_EXPIRY_SECONDS + 1}

\* time.time() moves on
Elapse ==
  /\ \E t \in Times : t > auth.now /\ auth' = [auth EXCEPT !.now = t]
  /\ UNCHANGED <<engine, sessions, log, threads, lock, call, limiter>>

\* generate_pairing_code: expired codes are dropped, the new one is stored
\* unused under its hash
Generate ==
  /\ \E code \in Codes \ auth.made :
       LET kept == {h \in DOMAIN auth.codes :
                      auth.now - auth.codes[h].created_at < CODE_EXPIRY_SECONDS}
       IN auth' = [auth EXCEPT
                     !.codes = (CodeHash(code) :>
                                  [created_at |-> auth.now, used |-> FALSE])
                                 @@ [h \in kept |-> auth.codes[h]],
                     !.made = @ \cup {code}]
  /\ UNCHANGED <<engine, sessions, log, threads, lock, call, limiter>>

\* verify_pairing_code starts: data = _load_json(PAIRING_CODES_FILE)
VerifyCall ==
  /\ Len(auth.verifies) < MaxVerifies
  /\ \E u \in PairUsers, code \in CodeArgs :
       auth' = [auth EXCEPT !.verifies =
                  Append(@, [user |-> u, code |-> code, pc |-> "loaded",
                             codes |-> auth.codes, attempts |-> auth.attempts,
                             ok |-> FALSE, age |-> 0])]
  /\ UNCHANGED <<engine, sessions, log, threads, lock, call, limiter>>

\* the rest of verify_pairing_code, on the data it loaded: lockout, expiry,
\* "used", then the file is saved and the user trusted; or the failed attempt
\* is counted and the file saved
VerifyReturn(t) ==
  LET v == auth.verifies[t]
      key == "telegram:" \o v.user
      info == IF key \in DOMAIN v.attempts THEN v.attempts[key]
              ELSE [count |-> 0, last |-> 0]
      full == info.count >= MAX_PAIRING_ATTEMPTS
      locked == full /\ LOCKOUT_SECONDS - (auth.now - info.last) > 0
      h == CodeHash(v.code)
      others == [k \in DOMAIN v.attempts \ {key} |-> v.attempts[k]]
  IN /\ v.pc = "loaded"
     /\ IF locked
        THEN auth' = [auth EXCEPT !.verifies[t].pc = "done"]
        ELSE IF h \in DOMAIN v.codes
        THEN IF \/ auth.now - v.codes[h].created_at > CODE_EXPIRY_SECONDS
                \/ v.codes[h].used
             THEN auth' = [auth EXCEPT !.verifies[t].pc = "done"]
             ELSE auth' = [auth EXCEPT
                             !.codes = [v.codes EXCEPT ![h].used = TRUE],
                             !.attempts = others,
                             !.trusted = @ \cup {key},
                             !.verifies[t].pc = "done",
                             !.verifies[t].ok = TRUE,
                             !.verifies[t].age =
                                auth.now - v.codes[h].created_at]
        ELSE auth' = [auth EXCEPT
                        !.codes = v.codes,
                        !.attempts =
                           (key :> [count |-> (IF full THEN 0 ELSE info.count) + 1,
                                    last |-> auth.now]) @@ others,
                        !.verifies[t].pc = "done"]
     /\ UNCHANGED <<engine, sessions, log, threads, lock, call, limiter>>

NextPairing ==
  \/ Elapse
  \/ Generate
  \/ VerifyCall
  \/ \E t \in 1..Len(auth.verifies) : VerifyReturn(t)

SpecPairing == Init /\ [][NextPairing]_vars

\* ------------------------------------------------------------------------
\* RateLimiter (rate_limiter.py): one limiter of one token a second, with
\* room for one token, asked about two keys

LimiterArgs == [rate |-> 1, per |-> 1, burst |-> 0]

LimiterKeys == {"user:1", "user:2"}

\* the clock readings that matter: a bucket just used, one second idle, and
\* idle for longer than max_idle
LimiterTimes == {0, 1, MAX_IDLE + 2}

\* "self.burst = burst or rate"
Burst == IF LimiterArgs.burst # 0 THEN LimiterArgs.burst ELSE LimiterArgs.rate

\* time.time() moves on
Tick ==
  /\ \E t \in LimiterTimes :
       t > limiter.now /\ limiter' = [limiter EXCEPT !.now = t]
  /\ UNCHANGED <<engine, sessions, log, threads, lock, call, auth>>

\* allow(key): the bucket is made full on first use, refilled for the time
\* elapsed, and a token is taken if there is one
Allow ==
  /\ limiter.allows < MaxAllows
  /\ \E key \in LimiterKeys :
       LET bucket == IF key \in DOMAIN limiter.buckets
                     THEN limiter.buckets[key]
                     ELSE [tokens |-> Burst, last_refill |-> limiter.now]
           elapsed == limiter.now - bucket.last_refill
           refill == (elapsed * LimiterArgs.rate) \div LimiterArgs.per
           tokens == Min({Burst, bucket.tokens + refill})
           others == [k \in DOMAIN limiter.buckets \ {key} |->
                        limiter.buckets[k]]
       IN limiter' = [limiter EXCEPT
            !.buckets = (key :> [tokens |-> IF tokens >= 1 THEN tokens - 1
                                            ELSE tokens,
                                 last_refill |-> limiter.now]) @@ others,
            !.allows = @ + 1]
  /\ UNCHANGED <<engine, sessions, log, threads, lock, call, auth>>

\* cleanup(), when its owner calls it: the buckets idle for longer than
\* max_idle go
Cleanup ==
  /\ \E k \in DOMAIN limiter.buckets :
       limiter.now - limiter.buckets[k].last_refill > MAX_IDLE
  /\ limiter' = [limiter EXCEPT !.buckets =
       [k \in {j \in DOMAIN @ : limiter.now - @[j].last_refill <= MAX_IDLE}
          |-> @[k]]]
  /\ UNCHANGED <<engine, sessions, log, threads, lock, call, auth>>

NextLimiter ==
  \/ Tick
  \/ Allow
  \/ Cleanup

SpecLimiter == Init /\ [][NextLimiter]_vars

\* ------------------------------------------------------------------------
\* Calls of the functions that keep no state

\* ChannelMessage(channel=..., chat_id=..., session_id=...) and its
\* __post_init__: the fields the message ends up with
ChannelMessage(channel, chat_id, session_id) ==
  [channel |-> channel, chat_id |-> chat_id,
   session_id |-> IF session_id = "" THEN channel \o ":" \o chat_id
                  ELSE session_id]

Construct ==
  /\ call = NoCall
  /\ \E o \in Origins, session_id \in SessionIdArgs :
       call' = [NoCall EXCEPT !.op = "ChannelMessage",
                              !.msg = ChannelMessage(o[1], o[2], session_id)]
  /\ UNCHANGED <<sessions, log, threads, lock>>
  /\ UNCHANGED <<engine, auth, limiter>>

Chunk ==
  /\ call = NoCall
  /\ \E args \in ChunkArgs :
       call' = [NoCall EXCEPT !.op = "_chunk_message",
                              !.text = args[1],
                              !.max_len = args[2],
                              !.chunks = _chunk_message(args[1], args[2])]
  /\ UNCHANGED <<sessions, log, threads, lock>>
  /\ UNCHANGED <<engine, auth, limiter>>

\* send_message of the three adapters.  A platform call answers "ok" or
\* raises; chat ids are decimal or not

ChatIdArgs == {"100", "abc"}

IsInt(chat_id) == chat_id = "100"

MSG_ID == "m1"

Uncaught(attempt, handler) == attempt

\* try: attempt / except Exception: handler
Caught(attempt, handler) == IF attempt.raised THEN handler ELSE attempt

\* self._app.bot.send_message(chat_id=int(chat_id), ...)
BotSend(chat_id, outcome) ==
  IF IsInt(chat_id) /\ outcome = "ok" THEN Returned(MSG_ID) ELSE Raised

\* TelegramAdapter.send_message: MarkdownV2 first, then plain text
TelegramSend(app, chat_id, outcomes) ==
  IF ~app THEN Returned("")
  ELSE Caught(BotSend(chat_id, outcomes[1]),
              Caught(BotSend(chat_id, outcomes[2]), Returned("")))

\* DiscordAdapter.send_message: get_channel (outcomes[1] is "ok" when the
\* channel is cached), fetch_channel, channel.send
DiscordSend(client, chat_id, outcomes) ==
  IF ~client THEN Returned("")
  ELSE Caught(IF ~IsInt(chat_id) THEN Raised
              ELSE IF outcomes[1] # "ok" /\ outcomes[2] # "ok" THEN Raised
              ELSE IF outcomes[3] = "ok" THEN Returned(MSG_ID)
              ELSE Raised,
              Returned(""))

\* FeishuAdapter.send_message: the import and the request raise or not
\* (outcomes[1]), the response is a success or not (outcomes[2]) and carries
\* data or not (outcomes[3])
FeishuSend(chat_id, outcomes) ==
  Caught(IF outcomes[1] # "ok" THEN Raised
         ELSE IF outcomes[2] = "ok" /\ outcomes[3] = "ok" THEN Returned(MSG_ID)
         ELSE Returned(""),
         Returned(""))

Send ==
  /\ call = NoCall
  /\ \E name \in {"telegram", "discord", "feishu"}, connected \in BOOLEAN,
        chat_id \in ChatIdArgs, outcomes \in [1..3 -> {"ok", "error"}] :
       call' = [NoCall EXCEPT
                  !.op = "send_message",
                  !.msg = [NoMsg EXCEPT !.channel = name, !.chat_id = chat_id],
                  !.text = outcomes,
                  !.result =
                     CASE name = "telegram" ->
                            TelegramSend(connected, chat_id, outcomes)
                       [] name = "discord" ->
                            DiscordSend(connected, chat_id, outcomes)
                       [] OTHER -> FeishuSend(chat_id, outcomes)]
  /\ UNCHANGED <<sessions, log, threads, lock>>
  /\ UNCHANGED <<engine, auth, limiter>>

\* _clean_result(text); the result is kept as the call's one chunk
Clean ==
  /\ call = NoCall
  /\ \E text \in CleanTexts :
       call' = [NoCall EXCEPT !.op = "_clean_result",
                              !.text = text,
                              !.chunks = <<_clean_result(text)>>]
  /\ UNCHANGED <<sessions, log, threads, lock>>
  /\ UNCHANGED <<engine, auth, limiter>>

\* one poll of _wait_for_result, from asyncio.sleep(POLL_INTERVAL) to the end
\* of the loop body, on the data read
WaitPoll ==
  /\ call = NoCall
  /\ \E data \in Boards, root \in ResultTexts \cup {<<>>}, d \in PollDelays,
        status_sent \in BOOLEAN :
       LET rec == [IdleProc EXCEPT !.pc = "poll", !.polls = 1,
                                   !.elapsed = Clock(0, d),
                                   !.status_sent = status_sent]
           next == Polled(rec, BoardRead(data, root))
       IN call' = [NoCall EXCEPT
                     !.op = "_wait_for_result",
                     !.text = data,
                     !.max_len = rec.elapsed,
                     !.chunks = IF next.returned THEN <<next.result>>
                                ELSE <<>>,
                     !.result = Returned(next.pc)]
  /\ UNCHANGED <<sessions, log, threads, lock>>
  /\ UNCHANGED <<engine, auth, limiter>>

\* the poll of _wait_for_result that finds no active task: the root task's
\* result as first read, as read again after asyncio.sleep(2), and what
\* collect_results has to give
WaitDone ==
  /\ call = NoCall
  /\ \E root \in ResultTexts \cup {<<>>}, again \in ResultTexts \cup {<<>>},
        collected \in ResultTexts \cup {<<>>} :
       LET rec == [IdleProc EXCEPT !.pc = "poll", !.polls = 1,
                                   !.elapsed = POLL_INTERVAL]
           first == Polled(rec, [kind |-> "done", root |-> root])
           read == [kind |-> "done", root |-> again, collected |-> collected]
           next == IF first.pc = "grace"
                   THEN Chunked(first, GraceRaw(read), GraceResult(read))
                   ELSE first
       IN call' = [NoCall EXCEPT
                     !.op = "no_active",
                     !.text = root,
                     !.max_len = IF next.graced THEN 1 ELSE 0,
                     !.chunks = <<again, collected, next.result>>,
                     !.result = Returned(next.pc)]
  /\ UNCHANGED <<sessions, log, threads, lock>>
  /\ UNCHANGED <<engine, auth, limiter>>

NextCalls ==
  \/ Construct
  \/ Chunk
  \/ Clean
  \/ WaitPoll
  \/ WaitDone
  \/ Send

SpecCalls == Init /\ [][NextCalls]_vars

\* ------------------------------------------------------------------------
\* The engine as start_channel_manager runs it: start() once, then messages,
\* reload() and stop()

Next ==
  \/ calls = 0 /\ start /\ UNCHANGED apart
  \/ calls > 0 /\ calls < MaxCalls /\ stop /\ UNCHANGED apart
  \/ calls > 0 /\ calls < MaxCalls /\ reload /\ UNCHANGED apart
  \/ _on_message /\ UNCHANGED apart
  \/ \E p \in 1..Len(procs) : Processor(p) /\ UNCHANGED apart

Spec == Init /\ [][Next]_vars

\* The same engine and its supervision: the health monitor and the reconnect
\* tasks, with no message traffic
NextHealth ==
  \/ calls = 0 /\ start /\ UNCHANGED apart
  \/ calls > 0 /\ calls < MaxCalls /\ stop /\ UNCHANGED apart
  \/ calls > 0 /\ calls < MaxCalls /\ reload /\ UNCHANGED apart
  \/ \E m \in 1..Len(monitors) : Monitor(m) /\ UNCHANGED apart
  \/ \E a \in 1..Len(ad) : \E k \in 1..Len(ad[a].reconnects) :
       Reconnect(a, k) /\ UNCHANGED apart

SpecHealth == Init /\ [][NextHealth]_vars

\* ChannelManager driven through its public methods in any order
NextLife ==
  \/ calls < MaxCalls /\ start /\ UNCHANGED apart
  \/ calls < MaxCalls /\ stop /\ UNCHANGED apart
  \/ calls < MaxCalls /\ reload /\ UNCHANGED apart
  \/ \E m \in 1..Len(monitors) : Monitor(m) /\ UNCHANGED apart
  \/ \E a \in 1..Len(ad) : \E k \in 1..Len(ad[a].reconnects) :
       Reconnect(a, k) /\ UNCHANGED apart

SpecLife == Init /\ [][NextLife]_vars

\* One more call of start(), stop() or reload(), with the health monitors at
\* work and the reconnect() tasks they create left waiting
NextStops ==
  \/ start /\ UNCHANGED apart
  \/ stop /\ UNCHANGED apart
  \/ reload /\ UNCHANGED apart
  \/ \E m \in 1..Len(monitors) : Monitor(m) /\ UNCHANGED apart

SpecStops == Init /\ [][NextStops]_vars

\* ------------------------------------------------------------------------
\* Properties

Procs == 1..Len(procs)

\* the adapter calls of the given kinds made for the message task p has in hand
Sends(p, kinds) ==
  {j \in 1..Len(procs[p].sent) : procs[p].sent[j].kind \in kinds}

TerminalSends == {"chunk", "timeout", "submit_failed", "failed"}

\* C1: messages are handled in the order they were enqueued: whenever an
\* adapter call is made for a message, that message is the one in flight and
\* every message enqueued before it is over, so all sends for an earlier
\* message precede all sends for a later one.
C1_Fifo ==
  [][\A p \in Procs :
       Len(procs'[p].sent) > Len(procs[p].sent) =>
         /\ status[procs[p].msg.id] = "inflight"
         /\ \A a \in 1..(procs[p].msg.id - 1) : status[a] = "over"]_vars

\* a second message gets its sends after the first one is over
C1_Witness ==
  \E p \in Procs :
    /\ procs[p].msg.id = 2 /\ Sends(p, {"ack"}) # {}
    /\ status[1] = "over" /\ status[2] = "inflight"

\* C2: at most one message is in flight at any moment: at most one processor
\* task is between a dequeue and the end of that message's cycle, and it holds
\* the only message that is neither waiting nor over.
C2_OneInFlight ==
  /\ Cardinality({p \in Procs : InFlight(p)}) <= 1
  /\ Cardinality({m \in 1..enqueued : status[m] = "inflight"}) <= 1
  /\ \A p \in Procs : InFlight(p) => status[procs[p].msg.id] = "inflight"

\* a message waits on the queue while another one is being polled
C2_Witness ==
  /\ queue # <<>>
  /\ \E p \in Procs : InFlight(p) /\ procs[p].pc = "poll" /\ procs[p].polls > 0

\* C3: after any sequence of start(), stop() and reload() calls at most one
\* _task_processor task and at most one _health_monitor task is running.
C3_OneConsumer ==
  /\ Cardinality({p \in Procs : Live(p)}) <= 1
  /\ Cardinality({m \in 1..Len(monitors) : monitors[m].st = "run"}) <= 1

\* C4: no processor task is ended by an exception raised while it handles a
\* message.
C4_NeverCrashes == \A p \in Procs : procs[p].st # "crashed"

\* C5: a routed message that a processor task has finished with got a terminal
\* send: a result chunk, the timeout notice or a failure notice.
C5_TerminalSend ==
  \A p \in Procs :
    procs[p].ended \notin {"", "dropped"} => Sends(p, TerminalSends) # {}

\* the first message of a session, answered by the first poll: no task active,
\* and a result on the task that cleanup leaves as it is and that fits the
\* platform limit
FirstReplyCase(p) ==
  /\ procs[p].fresh /\ procs[p].ended = "delivered"
  /\ procs[p].polls = 1 /\ ~procs[p].graced /\ procs[p].returned
  /\ procs[p].raw # <<>> /\ _clean_result(procs[p].raw) = procs[p].raw
  /\ TextLen(procs[p].raw) <= PLATFORM_LIMITS(procs[p].msg.channel)

\* the session is new with message_count 1, its history gained the user turn
\* and an assistant turn with the given content, and send_message(chat_id, R)
\* was called exactly once
FirstReplyDone(p, content) ==
  LET sid == Sid(procs[p])
  IN /\ procs[p].count = 1 /\ sessions[sid].message_count = 1
     /\ Len(history[sid]) = procs[p].hlen + 2
     /\ history[sid][Len(history[sid])] =
          [role |-> "assistant", content |-> content]
     /\ Cardinality(Sends(p, {"chunk"})) = 1
     /\ \A j \in Sends(p, {"chunk"}) :
          /\ procs[p].sent[j].chat_id = procs[p].msg.chat_id
          /\ procs[p].chunks[procs[p].sent[j].part] = procs[p].raw

\* C6 as stated: the assistant turn's content is the result R itself.
C6_TurnIsResult ==
  \A p \in Procs : FirstReplyCase(p) => FirstReplyDone(p, procs[p].raw)

\* C6: in that case a new session with message_count 1 exists, the history
\* gains an assistant turn whose content is the first HISTORY_LIMIT characters
\* of R, and send_message(chat_id, R) is called exactly once.
C6_FirstReply ==
  \A p \in Procs :
    FirstReplyCase(p) =>
      FirstReplyDone(p, Prefix(procs[p].raw, HISTORY_LIMIT))

\* a first reply longer than HISTORY_LIMIT has been delivered in one piece
C6_Witness ==
  \E p \in Procs : FirstReplyCase(p) /\ TextLen(procs[p].raw) > HISTORY_LIMIT

\* C7: when polling runs out of time the message gets no result chunk and no
\* assistant turn, and exactly one timeout notice, after which the task is
\* back at the queue.
C7_Timeout ==
  \A p \in Procs :
    procs[p].timed_out =>
      LET sid == Sid(procs[p])
      IN /\ Sends(p, {"chunk"}) = {}
         /\ Len(history[sid]) = procs[p].hlen + 1
         /\ history[sid][Len(history[sid])].role = "user"
         /\ IF procs[p].pc = "timeout_notice"
            THEN Sends(p, {"timeout"}) = {}
            ELSE /\ procs[p].pc = "idle" /\ procs[p].ended = "timeout"
                 /\ Cardinality(Sends(p, {"timeout"})) = 1

\* a task polled several times, ran out of time, and is back at the queue
C7_Witness ==
  \E p \in Procs :
    /\ procs[p].timed_out /\ procs[p].ended = "timeout"
    /\ procs[p].polls > 1 /\ Live(p)

\* C8: what polling returns when no task is active is never the empty string.
C8_NeverEmpty == \A p \in Procs : procs[p].returned => procs[p].result # <<>>

\* C9: while one task is polled the "still working" typing indicator is sent at
\* most once and only when more than STATUS_INTERVAL has elapsed, and from
\* then on status_sent is true.
C9_StillWorkingOnce ==
  \A p \in Procs :
    /\ Cardinality(Sends(p, {"status"})) <= 1
    /\ Sends(p, {"status"}) # {} =>
          procs[p].status_sent /\ procs[p].elapsed > STATUS_INTERVAL
    /\ procs[p].pc = "status" =>
          /\ procs[p].elapsed > STATUS_INTERVAL
          /\ ~procs[p].status_sent /\ Sends(p, {"status"}) = {}

\* polling goes on after the indicator was sent
C9_Witness ==
  \E p \in Procs :
    /\ Live(p) /\ procs[p].pc = "poll" /\ procs[p].status_sent
    /\ Cardinality(Sends(p, {"status"})) = 1

\* C10: no adapter has more than one reconnect() task pending.
C10_OneReconnect ==
  \A a \in 1..Len(ad) :
    Cardinality({k \in 1..Len(ad[a].reconnects) :
                   Pending(ad[a].reconnects[k])}) <= 1

ThreadSid(t) == SessionId(threads[t].channel, threads[t].chat_id)

Creates(sid) ==
  {t \in 1..Len(threads) :
     threads[t].op = "get_or_create" /\ ThreadSid(t) = sid}

\* the update_task calls that found their session
Updates(sid) ==
  {t \in 1..Len(threads) :
     threads[t].op = "update_task" /\ ThreadSid(t) = sid /\ threads[t].found}

AllDone ==
  /\ Len(threads) > 1
  /\ \A t \in 1..Len(threads) : threads[t].pc = "done"

\* C12: once concurrent get_or_create and update_task calls have all returned,
\* every session they named is stored with message_count equal to the number of
\* get_or_create calls made for it, with every user id passed, and with the
\* task id of one of the update_task calls that found it.
C12_NoLostUpdate ==
  AllDone =>
    \A o \in ThreadOrigins :
      LET sid == SessionId(o[1], o[2])
      IN Creates(sid) # {} =>
           /\ sid \in DOMAIN sessions
           /\ sessions[sid].message_count = Cardinality(Creates(sid))
           /\ \A t \in Creates(sid) :
                \E k \in 1..Len(sessions[sid].user_ids) :
                  sessions[sid].user_ids[k] = threads[t].user_id
           /\ Updates(sid) # {} =>
                \E t \in Updates(sid) :
                  sessions[sid].last_task_id = threads[t].task_id

\* the get_or_create calls made for a session, as positions in the log
Created(sid) ==
  {i \in 1..Len(log) :
     /\ log[i].op = "get_or_create"
     /\ SessionId(log[i].channel, log[i].chat_id) = sid}

Members(list) == {list[k] : k \in 1..Len(list)}

NoDuplicate(list) ==
  \A j, k \in 1..Len(list) : j # k => list[j] # list[k]

\* C13: after any sequence of get_or_create calls, a session's user_ids are the
\* distinct non-empty user ids passed for it, each once, its user_names
\* likewise, and its message_count is the number of get_or_create calls made
\* for it.
C13_SetAndCount ==
  \A o \in Origins :
    LET sid == SessionId(o[1], o[2])
    IN Created(sid) # {} =>
         /\ sid \in DOMAIN sessions
         /\ sessions[sid].message_count = Cardinality(Created(sid))
         /\ NoDuplicate(sessions[sid].user_ids)
         /\ Members(sessions[sid].user_ids) =
              {log[i].user_id : i \in Created(sid)} \ {""}
         /\ NoDuplicate(sessions[sid].user_names)
         /\ Members(sessions[sid].user_names) =
              {log[i].user_name : i \in Created(sid)} \ {""}

\* three calls for one session, one user id passed twice
C13_Witness ==
  \E sid \in DOMAIN sessions :
    /\ sessions[sid].message_count = 3
    /\ Len(sessions[sid].user_ids) = 2
    /\ log[1].user_id = log[3].user_id

\* C14: every stored session record has session_id equal to its channel, a
\* colon and its chat_id, and is stored under that key, after any sequence of
\* get_or_create and update_task calls.
C14_KeyIsChannelChat ==
  \A key \in DOMAIN sessions :
    /\ sessions[key].session_id = sessions[key].channel \o ":" \o
                                    sessions[key].chat_id
    /\ key = sessions[key].session_id

\* two chats with the same chat_id on different channels, one of them updated
C14_Witness ==
  /\ "telegram:100" \in DOMAIN sessions
  /\ "discord:100" \in DOMAIN sessions
  /\ \E key \in DOMAIN sessions : sessions[key].last_task_id # 0

\* C16: a session created by a get_or_create call is stored in every later
\* state, with the created_at of that first call, whatever the reads of the file
\* return.
C16_NeverRemoved ==
  \A i \in 1..Len(log) :
    LET sid == SessionId(log[i].channel, log[i].chat_id)
    IN (log[i].op = "get_or_create" /\ i = Min(Created(sid))) =>
         /\ sid \in DOMAIN sessions
         /\ sessions[sid].created_at = i - 1

\* C17: no get_or_create or update_task call changes the created_at of a
\* session that is stored.
C17_CreatedAtFixed ==
  [][\A sid \in DOMAIN sessions :
       sid \in DOMAIN sessions' =>
         sessions'[sid].created_at = sessions[sid].created_at]_vars

\* a session created first, then met again and given a task
C17_Witness ==
  \E sid \in DOMAIN sessions :
    /\ sessions[sid].created_at = 0
    /\ sessions[sid].message_count = 2
    /\ sessions[sid].last_task_id # 0
    /\ sessions[sid].last_active = 2

\* ------------------------------------------------------------------------
\* Properties of ChannelMessage and _chunk_message

\* C15: every ChannelMessage constructed has session_id equal to its channel, a
\* colon and its chat_id.
C15_DerivedSessionId ==
  call.op = "ChannelMessage" =>
    call.msg.session_id = call.msg.channel \o ":" \o call.msg.chat_id

\* C18: every chunk _chunk_message returns is at most max_len characters long.
C18_ChunksFit ==
  call.op = "_chunk_message" =>
    \A k \in 1..Len(call.chunks) : TextLen(call.chunks[k]) <= call.max_len

\* a text cut at a space and then at a line break
C18_Witness ==
  /\ call.op = "_chunk_message"
  /\ call.text = <<"a", SP, "b", NL, "a">>
  /\ call.max_len = 2
  /\ Len(call.chunks) = 3

\* text is the chunks in order with nothing but whitespace between one chunk
\* and the next and after the last
RECURSIVE Rebuilds(_, _)
Rebuilds(text, chunks) ==
  IF chunks = <<>> THEN \A k \in 1..Len(text) : IsSpace(text[k])
  ELSE LET c == Head(chunks)
       IN /\ Len(c) <= Len(text)
          /\ Slice(text, 1, Len(c)) = c
          /\ \E k \in Len(c)..Len(text) :
               /\ \A j \in (Len(c) + 1)..k : IsSpace(text[j])
               /\ Rebuilds(Slice(text, k + 1, Len(text)), Tail(chunks))

\* C19: the chunks _chunk_message returns are, in order, the text with only
\* whitespace taken out where one chunk ends: every other character is in the
\* chunks once, in the original order, and nothing is added.
C19_OnlyWhitespaceLost ==
  call.op = "_chunk_message" => Rebuilds(call.text, call.chunks)

\* two spaces taken out at the cut
C19_Witness ==
  /\ call.op = "_chunk_message"
  /\ call.text = <<"a", SP, SP, "b", "a">>
  /\ call.chunks = << <<"a">>, <<"b", "a">> >>

\* ceil(L / M) chunks, all of M characters but the last, which has the rest
HardCuts(chunks, L, M) ==
  LET n == (L + M - 1) \div M
  IN /\ Len(chunks) = n
     /\ \A k \in 1..(n - 1) : TextLen(chunks[k]) = M
     /\ TextLen(chunks[n]) = L - M * (n - 1)

\* C20, as the claim has it: a text longer than max_len with no line break and
\* no space in it is cut into ceil(L / M) chunks of max_len characters, the
\* last one holding the rest.
C20_NoBreakOrSpace ==
  (/\ call.op = "_chunk_message"
   /\ TextLen(call.text) > call.max_len
   /\ \A k \in 1..Len(call.text) : call.text[k] \notin {NL, SP}) =>
    HardCuts(call.chunks, TextLen(call.text), call.max_len)

\* C20, amended: a text longer than max_len with no whitespace character in it
\* is cut into ceil(L / M) chunks of max_len characters, the last one holding
\* the rest.
C20_HardCuts ==
  (/\ call.op = "_chunk_message"
   /\ TextLen(call.text) > call.max_len
   /\ \A k \in 1..Len(call.text) : ~IsSpace(call.text[k])) =>
    HardCuts(call.chunks, TextLen(call.text), call.max_len)

\* five letters at limit 2: chunks of 2, 2 and 1
C20_Witness ==
  /\ call.op = "_chunk_message"
  /\ call.text = <<"a", "b", "a", "b", "a">>
  /\ call.max_len = 2
  /\ call.chunks = << <<"a", "b">>, <<"a", "b">>, <<"a">> >>

\* C21: cleaning a cleaned result changes nothing:
\* _clean_result(_clean_result(text)) = _clean_result(text).
C21_Idempotent ==
  call.op = "_clean_result" => _clean_result(call.chunks[1]) = call.chunks[1]

\* ------------------------------------------------------------------------
\* Properties of the processor's error paths and of the engine's lifecycle

Unrouted(msg) ==
  \A k \in 1..Len(adapters) : ad[adapters[k]].name # msg.channel

\* C22: when the processor dequeues a message whose channel has no registered
\* adapter, nothing is sent and no task is submitted for it, the session store
\* is left as it was, the message is not in the queue again, and the processor
\* is back at the top of its loop.
C22_DroppedUnrouted ==
  [][\A p \in Procs :
       (/\ queue # <<>> /\ queue' = Tail(queue)
        /\ procs'[p] # procs[p]
        /\ Unrouted(Head(queue))) =>
         /\ procs'[p].msg = Head(queue)
         /\ procs'[p].sent = <<>>
         /\ procs'[p].submits = 0
         /\ sessions' = sessions
         /\ status'[Head(queue).id] = "over"
         /\ \A k \in 1..Len(queue') : queue'[k].id # Head(queue).id
         /\ procs'[p].pc = "idle"
         /\ running => procs'[p].st = "run"]_vars

\* a message dropped while the next one waits in the queue
C22_Witness ==
  \E p \in Procs :
    /\ procs[p].ended = "dropped" /\ procs[p].msg.id = 1
    /\ procs[p].st = "run"
    /\ Len(queue) = 1

\* C23: for a message whose submission failed, _submit_task was called once,
\* no acknowledgement, status, chunk or other notice was sent and no poll was
\* made, the session's last_task_id is not this message's task, and once the
\* one failure notice is sent the processor is back at the top of its loop.
C23_SubmitFails ==
  \A p \in Procs :
    (procs[p].pc = "submit_failed" \/ procs[p].ended = "submit_failed") =>
      /\ procs[p].submits = 1
      /\ procs[p].polls = 0
      /\ Sends(p, {"ack", "status", "chunk", "timeout", "failed"}) = {}
      /\ sessions[Sid(procs[p])].last_task_id # procs[p].msg.id
      /\ IF procs[p].ended = "submit_failed"
         THEN procs[p].pc = "idle" /\ Cardinality(Sends(p, {"submit_failed"})) = 1
         ELSE Sends(p, {"submit_failed"}) = {}

\* the second message's submission failed after the first one's succeeded
C23_Witness ==
  \E p \in Procs :
    /\ procs[p].ended = "submit_failed" /\ procs[p].msg.id = 2
    /\ sessions[Sid(procs[p])].last_task_id = 1

\* C24: after any start(), stop() and reload() calls, if a registered adapter
\* is running then the task in self._processor_task is alive, in its loop.
C24_ProcessorWithAdapters ==
  (\E k \in 1..Len(adapters) : ad[adapters[k]].running) =>
    /\ processorTask # 0
    /\ procs[processorTask].st = "run"

\* C25: while the engine is stopped, no _health_monitor task gets the answer of
\* a health check and no reconnect() task is created.
C25_StoppedForGood ==
  [][(~running /\ ~running') =>
       /\ \A m \in 1..Len(monitors) :
            monitors[m].pc = "check" => monitors'[m] = monitors[m]
       /\ \A a \in 1..Len(ad) :
            Len(ad'[a].reconnects) = Len(ad[a].reconnects)]_vars

\* C26: a Telegram adapter whose stop() has been called is not running, whatever
\* its reconnect() tasks do afterwards.
C26_StoppedStaysStopped ==
  \A a \in 1..Len(ad) :
    (ad[a].name = "telegram" /\ ad[a].stopping) => ~ad[a].running

\* C27: send_message of an adapter raises nothing to its caller: it returns a
\* message id, or the empty string when the platform call failed.
C27_SendNeverRaises ==
  call.op = "send_message" =>
    /\ ~call.result.raised
    /\ call.result.value \in {MSG_ID, ""}
    /\ (\A k \in 1..3 : call.text[k] = "error") => call.result.value = ""

\* Telegram: the MarkdownV2 send and the plain-text send both failed
C27_Witness ==
  /\ call.op = "send_message"
  /\ call.msg.channel = "telegram"
  /\ call.text[1] = "error" /\ call.text[2] = "error"
  /\ call.result = Returned("")

\* ------------------------------------------------------------------------
\* Properties of UserAuth

\* the verify_pairing_code calls that returned ok for a generated code
Accepted(code) ==
  {t \in 1..Len(auth.verifies) :
     auth.verifies[t].ok /\ CodeHash(auth.verifies[t].code) = CodeHash(code)}

\* C28: of the verify_pairing_code calls that submit one generated code, in any
\* interleaving, at most one returns ok, and none returns ok for a code older
\* than CODE_EXPIRY_SECONDS.
C28_OneTimeCode ==
  \A code \in Codes :
    /\ Cardinality(Accepted(code)) <= 1
    /\ \A t \in Accepted(code) : auth.verifies[t].age <= CODE_EXPIRY_SECONDS

\* ------------------------------------------------------------------------
\* Properties of the order of the processor's steps

\* the assistant turn of the result task p got is in the session's history
TurnRecorded(p) ==
  LET sid == Sid(procs[p])
  IN /\ sid \in DOMAIN history
     /\ Len(history[sid]) >= procs[p].hlen + 2
     /\ \E k \in (procs[p].hlen + 2)..Len(history[sid]) :
          history[sid][k] = [role |-> "assistant",
                             content |-> Prefix(procs[p].result, HISTORY_LIMIT)]

\* C29: for the message a processor task has in hand the typing indicator
\* comes before the submission, the acknowledgement after a task id was
\* obtained and before the first poll, the assistant turn after polling and
\* before the first chunk, and the task is idle again only after the last
\* chunk.
C29_StepsInOrder ==
  \A p \in Procs :
    LET r == procs[p]
        typing == Sends(p, {"typing"})
        ack == Sends(p, {"ack"})
        chunk == Sends(p, {"chunk"})
    IN /\ r.submits > 0 => Cardinality(typing) = 1
       /\ r.pc \in {"notice", "typing"} => r.submits = 0 /\ ack = {}
       /\ r.pc \in {"submit", "ack"} => ack = {} /\ r.polls = 0
       /\ r.pc = "ack" =>
            /\ r.submits = 1
            /\ Sid(r) \in DOMAIN sessions
       /\ ack # {} => r.submits = 1 /\ \A i \in ack, j \in typing : j < i
       /\ r.polls > 0 => Cardinality(ack) = 1
       /\ \A i \in Sends(p, {"status", "chunk", "timeout"}), j \in ack : j < i
       /\ r.pc = "chunk" \/ chunk # {} =>
            /\ r.polls > 0 /\ r.returned /\ r.result # <<>>
            /\ TurnRecorded(p)
            /\ Cardinality(ack) = 1
       /\ r.ended = "delivered" =>
            /\ r.pc = "idle"
            /\ Cardinality(chunk) = Len(r.chunks) /\ chunk # {}
            /\ \A i \in chunk, j \in 1..Len(r.sent) : j > i => j \in chunk

\* a message went through every step, its result in several chunks after a
\* "still working" indicator, and the task is back at the queue
C29_Witness ==
  \E p \in Procs :
    /\ Live(p) /\ procs[p].pc = "idle" /\ procs[p].ended = "delivered"
    /\ Cardinality(Sends(p, {"chunk"})) > 1
    /\ procs[p].polls > 1

\* ------------------------------------------------------------------------
\* Properties of result polling

\* a task of the data read has one of the statuses that mean "keep waiting"
SomeActive(data) ==
  \E i \in 1..Len(data) :
    \/ data[i] = "pending" \/ data[i] = "claimed" \/ data[i] = "review"
    \/ data[i] = "critique" \/ data[i] = "blocked" \/ data[i] = "paused"
    \/ data[i] = "synthesizing"

C31_PreferenceOrder ==
  call.op = "no_active" =>
    LET root == call.text
        again == call.chunks[1]
        collected == call.chunks[2]
        result == call.chunks[3]
    IN /\ call.max_len = (IF root # <<>> THEN 0 ELSE 1)
       /\ result = (IF root # <<>> THEN _clean_result(root)
                    ELSE IF again # <<>> THEN _clean_result(again)
                    ELSE IF collected # <<>> THEN _clean_result(collected)
                    ELSE NO_RESULT)

\* the task's own result appeared at the re-read while an aggregated result
\* of another text was there too, and the task's own result was returned
C31_Witness ==
  /\ call.op = "no_active" /\ call.text = <<>> /\ call.max_len = 1
  /\ call.chunks[1] # <<>> /\ call.chunks[2] # <<>>
  /\ _clean_result(call.chunks[1]) # _clean_result(call.chunks[2])
  /\ call.chunks[3] = _clean_result(call.chunks[1])

\* C32: a task whose polling went on to TASK_TIMEOUT, and so past
\* STATUS_INTERVAL, without completion has had the "still working" typing
\* indicator sent exactly once, whatever the reads of the TaskBoard returned.
C32_StillWorkingSent ==
  \A p \in Procs :
    procs[p].timed_out => Cardinality(Sends(p, {"status"})) = 1

\* C33: the timeout notice is sent, or about to be sent, only for a message
\* whose polling ran to TASK_TIMEOUT and never returned; a poll that found no
\* active task never leads to it, whatever the result text.
C33_TimeoutOnlyAtCeiling ==
  \A p \in Procs :
    procs[p].pc = "timeout_notice" \/ Sends(p, {"timeout"}) # {} =>
      /\ procs[p].timed_out /\ procs[p].elapsed = TASK_TIMEOUT
      /\ ~procs[p].returned

\* ------------------------------------------------------------------------
\* Properties of routing and of the queue

\* C34: every adapter call made for the message a task has in hand (notice,
\* typing indicators, acknowledgement, chunks, timeout and failure notices)
\* is made with the message's chat_id on an adapter of the message's channel.
C34_SendsToOrigin ==
  \A p \in Procs :
    \A j \in 1..Len(procs[p].sent) :
      /\ procs[p].sent[j].chat_id = procs[p].msg.chat_id
      /\ procs[p].sent[j].channel = procs[p].msg.channel

\* a message of the second channel got a queue notice, the typing indicator,
\* the acknowledgement and its result
C34_Witness ==
  \E p \in Procs :
    /\ procs[p].via > 1 /\ procs[p].ended = "delivered"
    /\ \A k \in {"notice", "typing", "ack", "chunk"} : Sends(p, {k}) # {}

\* C35: a message that was dequeued is never on the queue again and never
\* goes back to an earlier stage, whatever became of its sends; for the
\* message it has in hand a task submits at most once and sends each chunk at
\* most once.
C35_ProcessedOnce ==
  [][/\ \A id \in 1..enqueued :
          /\ status[id] = "over" => status'[id] = "over"
          /\ status[id] # "queued" =>
                /\ status'[id] # "queued"
                /\ \A k \in 1..Len(queue') : queue'[k].id # id
     /\ \A p \in 1..Len(procs') :
          /\ procs'[p].submits <= 1
          /\ \A i, j \in 1..Len(procs'[p].sent) :
                /\ procs'[p].sent[i].kind = "chunk"
                /\ procs'[p].sent[j].kind = "chunk"
                /\ procs'[p].sent[i].part = procs'[p].sent[j].part
                => i = j]_vars

\* the second message ended with the failure notice after its one submission:
\* the queue is empty and the task waits on it
C35_Witness ==
  \E p \in Procs :
    /\ enqueued = MaxMsgs /\ \A id \in 1..enqueued : status[id] = "over"
    /\ Live(p) /\ procs[p].pc = "idle" /\ procs[p].ended = "failed"
    /\ procs[p].msg.id = MaxMsgs /\ procs[p].submits = 1
    /\ Sends(p, {"failed"}) # {}
    /\ queue = <<>>

\* ------------------------------------------------------------------------
\* Properties of a health-monitor tick

UpdateTaskStep ==
  /\ Len(log') = Len(log) + 1
  /\ log'[Len(log')].op = "update_task"

\* C37: an update_task call on a stored session sets its last_task_id to the
\* task id and its last_active to the time of the call and changes no other
\* field of it and no other session; on a session id that is not stored it
\* leaves the store as it is.
C37_UpdateTaskFrame ==
  [][UpdateTaskStep =>
       LET c == log'[Len(log')]
           sid == SessionId(c.channel, c.chat_id)
       IN /\ DOMAIN sessions' = DOMAIN sessions
          /\ \A other \in DOMAIN sessions \ {sid} :
               sessions'[other] = sessions[other]
          /\ sid \in DOMAIN sessions =>
               /\ sessions'[sid].last_task_id = c.task_id
               /\ sessions'[sid].last_active = Len(log)
               /\ sessions'[sid] =
                    [sessions[sid] EXCEPT
                       !.last_task_id = sessions'[sid].last_task_id,
                       !.last_active = sessions'[sid].last_active]]_vars

\* a session with a user got a task, some time after it was created, while
\* another session is stored
C37_Witness ==
  /\ Len(log) = MaxStoreCalls /\ log[Len(log)].op = "update_task"
  /\ Cardinality(DOMAIN sessions) = 2
  /\ \E sid \in DOMAIN sessions :
       /\ sid = SessionId(log[Len(log)].channel, log[Len(log)].chat_id)
       /\ sessions[sid].last_task_id = log[Len(log)].task_id
       /\ sessions[sid].last_active > sessions[sid].created_at
       /\ sessions[sid].user_ids # <<>>

\* ------------------------------------------------------------------------
\* Properties of the place where _chunk_message splits

\* the places from the from-th lexeme on at which sub lies wholly within the
\* first max_len characters of the text
Boundaries(text, sub, max_len, from) ==
  {p \in from..(Len(text) - Len(sub) + 1) :
     /\ \A k \in 1..Len(sub) : text[p + k - 1] = sub[k]
     /\ Offset(text, p + Len(sub) - 1) <= max_len}

\* the first chunk ends before the last paragraph break there is from the
\* from-th lexeme on, else before the last line break, else before the last
\* space, else after max_len characters
SplitByPriority(text, max_len, first, from) ==
  LET para == Boundaries(text, <<NL, NL>>, max_len, from)
      line == Boundaries(text, <<NL>>, max_len, from)
      space == Boundaries(text, <<SP>>, max_len, from)
  IN IF para # {} THEN Len(first) = Max(para) - 1
     ELSE IF line # {} THEN Len(first) = Max(line) - 1
     ELSE IF space # {} THEN Len(first) = Max(space) - 1
     ELSE TextLen(first) = max_len

\* C38, as the claim has it: a text longer than max_len is split at the last
\* paragraph break within its first max_len characters if there is one, else
\* at the last line break, else at the last space, else at max_len.
C38_AnyBoundary ==
  call.op = "_chunk_message" /\ TextLen(call.text) > call.max_len =>
    SplitByPriority(call.text, call.max_len, call.chunks[1], 1)

\* C38, amended: the same, a boundary at the very start of the text counting
\* as none.
C38_BoundaryPriority ==
  call.op = "_chunk_message" /\ TextLen(call.text) > call.max_len =>
    SplitByPriority(call.text, call.max_len, call.chunks[1], 2)

\* a paragraph break and, after it, a line break lie within the limit: the
\* text is split at the paragraph break
C38_Witness ==
  /\ call.op = "_chunk_message"
  /\ call.text = <<"a", NL, NL, NL, "b">> /\ call.max_len = 4
  /\ call.chunks = << <<"a", NL>>, <<"b">> >>

\* C39, as the claim has it: every chunk _chunk_message returns is non-empty.
C39_NoEmptyChunk ==
  call.op = "_chunk_message" =>
    \A k \in 1..Len(call.chunks) : call.chunks[k] # <<>>

\* the chunks the loop has appended once k of them are there, and the text
\* that remains
RECURSIVE Remaining(_, _, _)
Remaining(text, chunks, k) ==
  IF k = 0 THEN text
  ELSE LET before == Remaining(text, chunks, k - 1)
       IN LStrip(Slice(before, Len(chunks[k]) + 1, Len(before)))

\* C39, amended: for a text that is not empty every chunk returned is
\* non-empty, each chunk appended leaves a shorter remaining text, and the
\* loop ends with nothing remaining.
C39_Terminates ==
  call.op = "_chunk_message" /\ call.text # <<>> =>
    /\ \A k \in 1..Len(call.chunks) :
         /\ call.chunks[k] # <<>>
         /\ Len(Remaining(call.text, call.chunks, k))
              < Len(Remaining(call.text, call.chunks, k - 1))
    /\ Remaining(call.text, call.chunks, Len(call.chunks)) = <<>>

\* a text of nothing but line breaks and spaces, longer than the limit
C39_Witness ==
  /\ call.op = "_chunk_message"
  /\ call.text = <<NL, NL, SP, NL, NL>> /\ call.max_len = 1
  /\ Len(call.chunks) >= 1

\* ------------------------------------------------------------------------
\* Properties of the RateLimiter

\* C40: when an allow() call is the CLEANUP_EVERY-th, or a multiple of it, no
\* bucket that has been idle for longer than max_idle is stored once the call
\* has returned.
C40_IdleBucketsRemoved ==
  [][(/\ limiter'.allows = limiter.allows + 1
      /\ limiter'.allows % CLEANUP_EVERY = 0) =>
       \A k \in DOMAIN limiter'.buckets :
         limiter'.now - limiter'.buckets[k].last_refill <= MAX_IDLE]_vars
====
